---- MODULE Spec2Model ----
(***************************************************************************)
(* Worker threads of the Open CAS Linux cache module (threads.c): the      *)
(* handle struct cas_thread_info, the I/O queue worker queue_thread_run,   *)
(* the cleaner worker cleaner_thread_run, and the create / start / kick /  *)
(* stop entry points.                                                      *)
(*                                                                         *)
(* One behaviour follows one handle.  Init chooses whether the handle      *)
(* belongs to an I/O queue (kind = "queue") or to the cleaner              *)
(* (kind = "cleaner"); the handle code (_cas_create_thread,                *)
(* _cas_start_thread, _cas_stop_thread) is shared by both, as in the       *)
(* source.                                                                 *)
(*                                                                         *)
(* Threads of the model: the creator (cas_create_*_thread), the worker     *)
(* kthread, one stopper that calls cas_stop_*_thread up to MaxStopCalls    *)
(* times one call after the other, NumKickers kickers that together call   *)
(* cas_kick_*_thread up to MaxKicks times, and the cache engine            *)
(* (enqueues, cleaning pass completions, the wait timer).  Every step      *)
(* makes at most one access to shared memory.                              *)
(*                                                                         *)
(* Kernel primitives are modelled by what they do:                         *)
(*   completion            a counter: complete() adds one,                 *)
(*                         wait_for_completion() blocks while it is 0 and  *)
(*                         then takes one, (re)init_completion() zeroes it *)
(*   wait_event_*(wq, c)   test c; else loop { prepare_to_wait (the task   *)
(*                         is on wq, TASK_INTERRUPTIBLE); test c;          *)
(*                         schedule() }.  wq_armed is "the worker is on    *)
(*                         info->wq and has not been woken"; schedule()    *)
(*                         returns once it is FALSE                        *)
(*   wake_up(wq)           wq_armed becomes FALSE                          *)
(* kthreads ignore signals, so the interruptible waits end only through    *)
(* their condition, a wake-up or the timer.                                *)
(*                                                                         *)
(* Three more specifications share the module, each over its own part of   *)
(* the state with the rest at rest:                                        *)
(*   PorterSpec   cache_get_fastest_porter_queue on its own, over every    *)
(*                vector of pending counts of up to MaxPorterCpus queues   *)
(*   ExpSpec      the exported object of exp_obj.c: one caller makes the   *)
(*                management calls cas_exp_obj_create / _activate /        *)
(*                _destroy / _free on one cas_disk in any order, one       *)
(*                statement group per step; every kernel call that can     *)
(*                fail does either.  A BUG_ON that trips leaves the call   *)
(*                at pc "bug"; a use of the freed exported object leaves   *)
(*                it at pc "ub"                                            *)
(*   OpenSpec     an activated device: NumOpeners tasks open and close it  *)
(*                while one task locks and unlocks it, all under           *)
(*                dsk->openers_lock                                        *)
(*   StraySpec    OpenSpec with one more task that calls                   *)
(*                _cas_exp_obj_close with no open of its own behind the    *)
(*                call                                                     *)
(***************************************************************************)
EXTENDS Integers, Sequences, FiniteSets, TLC

\* ---------------------------------------------------------------- bounds
MaxEnqueues == 2     \* I/O requests the cache engine pushes onto the queue
MaxKicks == 2        \* cas_kick_*_thread calls
NumKickers == 2      \* threads that may be inside cas_kick_*_thread at once
MaxStopCalls == 2    \* cas_stop_*_thread calls, one after the other
NumCpus == 2         \* num_online_cpus()
MaxPorterIo == 2     \* largest pending count a porter queue reports
MaxPorterCpus == 4   \* most CPUs of an array handed to the queue selection
MaxPorterPending == 8 \* largest pending count in such an array
MaxCreates == 2      \* cas_exp_obj_create calls on the one cas_disk
NumOpeners == 2      \* tasks that open and close the exported device
MaxStrayCloses == 1  \* _cas_exp_obj_close calls that no open stands behind
MaxHeld == 2         \* opens one task holds at a time
OpenersBits == 2     \* width of dsk->openers in the model (32 in the code)

\* <linux/genhd.h>; the name check of cas_exp_obj_create compares with it
DISK_NAME_LEN == 32

\* The uint32_t interval a pass hands to its completion callback. The code
\* only compares it with OCF_CLEANER_DISABLE (~0U, beyond TLC's integers) and
\* turns it into a timeout, which is zero exactly for 0 ms, so three values
\* stand for all of them.
OCF_CLEANER_DISABLE == "disable"
Intervals == {"0ms", "250ms", OCF_CLEANER_DISABLE}

VARIABLES
    kind,           \* "queue" | "cleaner": whose handle this behaviour follows
    priv,           \* the queue's / cleaner's private slot: "NULL" | "info"
    info_alloc,     \* struct cas_thread_info: "none" | "live" | "freed"
    stop,           \* info->stop
    kicked,         \* info->kicked
    compl,          \* info->compl (done count)
    sync_compl,     \* info->sync_compl (done count)
    sync_data,      \* info->sync_data: "NULL" | "ms"
    wq_armed,       \* the worker waits on info->wq and has not been woken
    wpc,            \* the worker kthread's position
    ms,             \* cleaner_thread_run's local ms; "unset": not written yet
    expired,        \* the timeout of the current timed wait has run out
    pending,        \* ocf_queue_pending_io(q) of the worker's queue
    batch,          \* requests the current ocf_queue_run call found queued
    inflight,       \* cleaning passes started and not completed: their queues
    cpc,            \* the creator's position
    result,         \* what cas_create_*_thread returned: "none" | "ok" | "err"
    spc,            \* the stopper's position
    s_info,         \* the stopper's local info
    stopCalls,      \* cas_stop_*_thread calls begun
    kpc,            \* each kicker's position
    k_info,         \* each kicker's local info
    kicks,          \* cas_kick_*_thread calls begun
    enqueues,       \* requests pushed so far
    warned,         \* WARN "Still pending IO requests" was raised
    faults,         \* invalid memory accesses that happened
    enqAfterStop,   \* history: a request was pushed after stop was called
    midKick,        \* history: "none" | "kicked" (a wake-up arrived inside
                    \*   ocf_queue_run and no ocf_queue_run began since) | "rerun"
    kickWaiting,    \* history: kicked was set and no pass started since
    passTargetIsMin,\* history: every pass went to a least-loaded queue
    passesAfterStop,\* history: cleaning passes started with stop already set
                    \*   (0, 1, or 2 for two and more)
    \* -- queue selection on its own (cache_get_fastest_porter_queue)
    porter_io,      \* ocf_queue_pending_io of queues[0..cpus_no-1], held fixed
    porter_ret,     \* the queue the call returned (1-based); 0: not called yet
    \* -- exported object (exp_obj.c), one struct cas_disk
    dsk,            \* struct cas_disk: exp_obj, gd_flags, gd_minors, private,
                    \*   openers, claimed
    exp,            \* *dsk->exp_obj: dev_name, owner, gd, queue, activated
    gdsk,           \* the backing device's gendisk: flags, minors
    bd_whole,       \* cas_bdev_whole(bd) == bd: the backing device is a disk
    gd,             \* the exported gendisk: minors, flags, disk_name
    kern,           \* what the kernel holds for the object (see KernNone)
    call,           \* the management call under way or last made, its inputs
    epc,            \* its position
    eret,           \* what the last call that returned returned
    eresult,        \* the local `result` of the call under way
    oplog,          \* kernel operations of the call, in the order made
    pre,            \* history: gdsk and kern when cas_exp_obj_create was entered
    efaults,        \* invalid accesses and releases that happened
    openers_lock,   \* dsk->openers_lock: 0 free, else the task that holds it
    opc,            \* each opener task's position
    held,           \* opens each opener task holds (succeeded, not closed)
    oret,           \* what each task's last _cas_exp_obj_open returned
    lpc,            \* the position of the task that calls lock / unlock
    lret,           \* what its last cas_exp_obj_lock returned
    reopen,         \* history: "none" | "rejected" (an open was refused while
                    \*   claimed) | "unlocked" (unlock cleared the flag after
                    \*   that) | "opened" (an open succeeded after that)
    stray           \* the task that calls _cas_exp_obj_close with no open
                    \*   of its own behind the call: its position (pc) and
                    \*   the calls it has begun

threadVars ==
    <<kind, priv, info_alloc, stop, kicked, compl, sync_compl, sync_data,
      wq_armed, wpc, ms, expired, pending, batch, inflight, cpc, result,
      spc, s_info, stopCalls, kpc, k_info, kicks, enqueues, warned,
      faults, enqAfterStop, midKick, kickWaiting, passTargetIsMin,
      passesAfterStop>>
porterVars == <<porter_io, porter_ret>>
expState == <<dsk, exp, gdsk, bd_whole, gd, kern>>
callerVars == <<call, epc, eret, eresult, oplog, pre, efaults>>
openVars == <<openers_lock, opc, held, oret, lpc, lret, reopen, stray>>
expVars == <<expState, callerVars, openVars>>
\* what the thread handle code never touches
nonThreadVars == <<porterVars, expVars>>
\* what the exported object code never touches
nonExpVars == <<threadVars, porterVars>>

vars == <<threadVars, nonThreadVars>>

\* groups used in UNCHANGED
handleFlags == <<stop, kicked, compl, sync_compl, sync_data>>
creatorVars == <<cpc, result>>
stopperVars == <<spc, s_info, stopCalls>>
kickerVars == <<kpc, k_info, kicks>>
queueVars == <<pending, batch, enqueues>>
cleanerVars == <<ms, expired, inflight>>
historyVars ==
    <<warned, enqAfterStop, midKick, kickWaiting, passTargetIsMin,
      passesAfterStop>>

Kickers == 1..NumKickers

\* ------------------------------------------------------------- load balancer
PendingArrays == [1..NumCpus -> 0..MaxPorterIo]

\* mutant of PorterScan: cmp_io <= min_io, a later queue with an equal count
\* replaces the running minimum
RECURSIVE PorterScanLastMin(_, _, _, _, _)
PorterScanLastMin(io, cpus_no, i, min_io, min_queue) ==
    IF min_io # 0 /\ i <= cpus_no
    THEN IF io[i] <= min_io
         THEN PorterScanLastMin(io, cpus_no, i + 1, io[i], i)
         ELSE PorterScanLastMin(io, cpus_no, i + 1, min_io, min_queue)
    ELSE min_queue

RECURSIVE PorterScan(_, _, _, _, _)
\* the loop of cache_get_fastest_porter_queue: i is the next index to look at
\* (1-based here, queues[i-1] in C), min_io / min_queue the running minimum
PorterScan(io, cpus_no, i, min_io, min_queue) ==
    IF min_io # 0 /\ i <= cpus_no
    THEN IF io[i] < min_io
         THEN PorterScan(io, cpus_no, i + 1, io[i], i)
         ELSE PorterScan(io, cpus_no, i + 1, min_io, min_queue)
    ELSE min_queue

\* io holds one count per online CPU: cpus_no = num_online_cpus() = Len(io)
cache_get_fastest_porter_queue(io) == PorterScan(io, Len(io), 2, io[1], 1)

\* the arrays the selection is checked on by itself: 1..MaxPorterCpus CPUs
\* (ENV_BUG_ON(!cpus_no)), uint32_t counts 0..MaxPorterPending
PorterInputs ==
    UNION {[1..n -> 0..MaxPorterPending] : n \in 1..MaxPorterCpus}

\* -------------------------------------------------------- exported object
Openers == 1..NumOpeners
\* the task that calls cas_exp_obj_lock / cas_exp_obj_unlock, as a mutex owner
LockerId == NumOpeners + 1
\* the task that calls _cas_exp_obj_close without an open, as a mutex owner
StrayId == NumOpeners + 2

\* dsk->openers is an unsigned int: OpenersBits wide here
UINT_MAX == 2 ^ OpenersBits - 1

\* _cas_flags: the gendisk flags hide_parts saves and clears
cas_flags == {"GENHD_FL_NO_PART_SCAN", "GENHD_FL_EXT_DEVT"}

\* disk_max_parts(disk) of <linux/genhd.h>: DISK_MAX_PARTS (256) with
\* GENHD_FL_EXT_DEVT, else disk->minors
disk_max_parts(disk) ==
    IF "GENHD_FL_EXT_DEVT" \in disk.flags THEN 256 ELSE disk.minors

\* backing gendisks a cas_disk is opened on
BackingDisks ==
    {[flags |-> f, minors |-> m] :
        f \in {{}, {"GENHD_FL_EXT_DEVT"}, {"GENHD_FL_EXT_DEVT", "GENHD_FL_UP"},
               {"GENHD_FL_NO_PART_SCAN", "GENHD_FL_UP"}},
        m \in {1, 16}}

\* device names handed to cas_exp_obj_create, by their strlen
NameLens == {1, DISK_NAME_LEN - 1, DISK_NAME_LEN, DISK_NAME_LEN + 1}

\* a struct cas_disk before cas_exp_obj_create (cas_disk_open zeroes it)
DskZero ==
    [exp_obj |-> "NULL", gd_flags |-> {}, gd_minors |-> 0, private |-> "NULL",
     openers |-> 0, claimed |-> FALSE]

\* kmem_cache_zalloc(cas_module.exp_obj_cache): every field zero
ExpZero ==
    [dev_name |-> 0, owner |-> "NULL", gd |-> "NULL", queue |-> "NULL",
     activated |-> FALSE]

\* no exported gendisk yet
GdNone == [minors |-> 0, flags |-> {}, disk_name |-> 0]

\* Kernel-side state of the object:
\*   obj_mem, name_mem   the kmem_cache object, the kstrdup'ed name:
\*                       "none" | "live" | "freed"
\*   module_refs         references the object holds on its owner module
\*   kobj                exp_obj->kobj: "none" | "init" | "added" | "released"
\*   tag_set, queue, disk  dsk->tag_set's tags, the request queue and the
\*                       gendisk of cas_alloc_mq_disk: "none" | "alloc" |
\*                       "released"
\*   minors              minor ranges cas_disk_allocate_minors handed out
\*   added, holder, link the disk is registered (add_disk), the holder link
\*                       of bd_link_disk_holder and the "blockdev" symlink
\*                       exist
KernNone ==
    [obj_mem |-> "none", name_mem |-> "none", module_refs |-> 0,
     kobj |-> "none", tag_set |-> "none", queue |-> "none", disk |-> "none",
     minors |-> 0, added |-> FALSE, holder |-> FALSE, link |-> FALSE]

\* The call under way or last made: op, its inputs (name_len: strlen of
\* dev_name, set_geometry: ops->set_geometry is there), the locals minors and
\* flags of _cas_exp_obj_set_dev_t, and history: found (_cas_exp_obj_exists
\* said the path exists), was_activated (the activation flag when the call
\* began), creates (create calls so far), prev (the call before this one)
NoPrev == [op |-> "none", ret |-> "none", name_len |-> 0]
CallNone ==
    [op |-> "none", name_len |-> 0, set_geometry |-> FALSE, minors |-> 0,
     flags |-> {}, found |-> FALSE, was_activated |-> FALSE, creates |-> 0,
     prev |-> NoPrev]

\* no close call without an open has been made
StrayIdle == [pc |-> "idle", calls |-> 0]

\* no exported object code runs; openers and locker at rest
OpenIdle ==
    /\ openers_lock = 0
    /\ opc = [p \in Openers |-> "idle"]
    /\ held = [p \in Openers |-> 0]
    /\ oret = [p \in Openers |-> "none"]
    /\ lpc = "idle"
    /\ lret = "none"
    /\ reopen = "none"
    /\ stray = StrayIdle

CallerIdle ==
    /\ call = CallNone
    /\ epc = "idle"
    /\ eret = "none"
    /\ eresult = "0"
    /\ oplog = <<>>
    /\ efaults = {}

ExpIdle ==
    /\ dsk = DskZero
    /\ exp = ExpZero
    /\ gdsk = [flags |-> {}, minors |-> 1]
    /\ bd_whole = FALSE
    /\ gd = GdNone
    /\ kern = KernNone
    /\ pre = [gdsk |-> [flags |-> {}, minors |-> 1], kern |-> KernNone]
    /\ CallerIdle
    /\ OpenIdle

\* ------------------------------------------------------------------- init
\* no queue selection under way
PorterIdle ==
    /\ porter_io = <<>>
    /\ porter_ret = 0

\* no thread handle: nothing of threads.c runs
ThreadIdle ==
    /\ kind = "none"
    /\ priv = "NULL"
    /\ info_alloc = "none"
    /\ stop = 0
    /\ kicked = 0
    /\ compl = 0
    /\ sync_compl = 0
    /\ sync_data = "NULL"
    /\ wq_armed = FALSE
    /\ wpc = "none"
    /\ ms = "unset"
    /\ expired = FALSE
    /\ pending = 0
    /\ batch = 0
    /\ inflight = <<>>
    /\ cpc = "call"
    /\ result = "none"
    /\ spc = "idle"
    /\ s_info = "NULL"
    /\ stopCalls = 0
    /\ kpc = [k \in Kickers |-> "idle"]
    /\ k_info = [k \in Kickers |-> "NULL"]
    /\ kicks = 0
    /\ enqueues = 0
    /\ warned = FALSE
    /\ faults = {}
    /\ enqAfterStop = FALSE
    /\ midKick = "none"
    /\ kickWaiting = FALSE
    /\ passTargetIsMin = TRUE
    /\ passesAfterStop = 0

Init ==
    /\ kind \in {"queue", "cleaner"}
    /\ priv = "NULL"
    /\ info_alloc = "none"
    /\ stop = 0
    /\ kicked = 0
    /\ compl = 0
    /\ sync_compl = 0
    /\ sync_data = "NULL"
    /\ wq_armed = FALSE
    /\ wpc = "none"
    /\ ms = "unset"
    /\ expired = FALSE
    /\ pending = 0
    /\ batch = 0
    /\ inflight = <<>>
    /\ cpc = "call"
    /\ result = "none"
    /\ spc = "idle"
    /\ s_info = "NULL"
    /\ stopCalls = 0
    /\ kpc = [k \in Kickers |-> "idle"]
    /\ k_info = [k \in Kickers |-> "NULL"]
    /\ kicks = 0
    /\ enqueues = 0
    /\ warned = FALSE
    /\ faults = {}
    /\ enqAfterStop = FALSE
    /\ midKick = "none"
    /\ kickWaiting = FALSE
    /\ passTargetIsMin = TRUE
    /\ passesAfterStop = 0
    /\ PorterIdle
    /\ ExpIdle

\* the worker dereferences info: invalid once the handle is freed
WorkerTouch == IF info_alloc = "freed" THEN faults \cup {"worker_uaf"} ELSE faults

\* --------------------------------------------------------------- creator
\* _cas_create_thread: kzalloc or kthread_create fails, nothing is left behind
cas_create_thread_fail ==
    /\ cpc = "call"
    /\ cpc' = "ret"
    /\ result' = "err"
    /\ UNCHANGED <<nonThreadVars,
                   kind, priv, info_alloc, handleFlags, wq_armed, wpc,
                   cleanerVars, queueVars, stopperVars, kickerVars, faults,
                   historyVars>>

\* mutant of cas_create_thread_ok: kthread_run in place of kthread_create, the
\* thread runs before the caller has stored the handle
cas_create_thread_ok_running ==
    /\ cpc = "call"
    /\ info_alloc' = "live"
    /\ stop' = 0
    /\ kicked' = 0
    /\ compl' = 0
    /\ sync_compl' = 0
    /\ sync_data' = "NULL"
    /\ wpc' = IF kind = "queue" THEN "q_entry" ELSE "c_entry"
    /\ cpc' = "set_priv"
    /\ UNCHANGED <<nonThreadVars,
                   kind, priv, wq_armed, cleanerVars, queueVars, result,
                   stopperVars, kickerVars, faults, historyVars>>

\* _cas_create_thread: the handle is allocated zeroed and initialised, the
\* kthread exists and is not running yet
cas_create_thread_ok ==
    /\ cpc = "call"
    /\ info_alloc' = "live"
    /\ stop' = 0
    /\ kicked' = 0
    /\ compl' = 0
    /\ sync_compl' = 0
    /\ sync_data' = "NULL"
    /\ wpc' = "created"
    /\ cpc' = "set_priv"
    /\ UNCHANGED <<nonThreadVars,
                   kind, priv, wq_armed, cleanerVars, queueVars, result,
                   stopperVars, kickerVars, faults, historyVars>>

\* cas_create_queue_thread / cas_create_cleaner_thread: ocf_*_set_priv(info)
cas_create_set_priv ==
    /\ cpc = "set_priv"
    /\ priv' = "info"
    /\ cpc' = "start"
    /\ UNCHANGED <<nonThreadVars,
                   kind, info_alloc, handleFlags, wq_armed, wpc, cleanerVars,
                   queueVars, result, stopperVars, kickerVars, faults,
                   historyVars>>

\* _cas_start_thread: wake_up_process(info->thread)
cas_start_thread_wake ==
    /\ cpc = "start"
    /\ wpc' = IF wpc = "created"
              THEN (IF kind = "queue" THEN "q_entry" ELSE "c_entry")
              ELSE wpc
    /\ cpc' = "start_wait"
    /\ UNCHANGED <<nonThreadVars,
                   kind, priv, info_alloc, handleFlags, wq_armed, cleanerVars,
                   queueVars, result, stopperVars, kickerVars, faults,
                   historyVars>>

\* _cas_start_thread: wait_for_completion(&info->compl), then return 0
cas_start_thread_wait ==
    /\ cpc = "start_wait"
    /\ compl > 0
    /\ compl' = compl - 1
    /\ cpc' = "ret"
    /\ result' = "ok"
    /\ UNCHANGED <<nonThreadVars,
                   kind, priv, info_alloc, stop, kicked, sync_compl, sync_data,
                   wq_armed, wpc, cleanerVars, queueVars, stopperVars,
                   kickerVars, faults, historyVars>>

\* ---------------------------------------------------------- queue worker
\* wait_event_interruptible(info->wq, ocf_queue_pending_io(q) || stop)
QueueWaitCond == pending > 0 \/ stop = 1

\* info = ocf_queue_get_priv(q); BUG_ON(!info)
queue_thread_run_entry ==
    /\ wpc = "q_entry"
    /\ wpc' = IF priv = "NULL" THEN "BUG" ELSE "q_started"
    /\ UNCHANGED <<nonThreadVars,
                   kind, priv, info_alloc, handleFlags, wq_armed, cleanerVars,
                   queueVars, creatorVars, stopperVars, kickerVars, faults,
                   historyVars>>

\* complete(&info->compl): the thread has started
queue_thread_run_started ==
    /\ wpc = "q_started"
    /\ compl' = compl + 1
    /\ faults' = WorkerTouch
    /\ wpc' = "q_wait"
    /\ UNCHANGED <<nonThreadVars,
                   kind, priv, info_alloc, stop, kicked, sync_compl, sync_data,
                   wq_armed, cleanerVars, queueVars, creatorVars, stopperVars,
                   kickerVars, historyVars>>

\* wait_event_interruptible: the condition is tested before any sleep
queue_wait_fast ==
    /\ wpc = "q_wait"
    /\ faults' = WorkerTouch
    /\ wpc' = IF QueueWaitCond THEN "q_run" ELSE "q_prep"
    /\ UNCHANGED <<nonThreadVars,
                   kind, priv, info_alloc, handleFlags, wq_armed, cleanerVars,
                   queueVars, creatorVars, stopperVars, kickerVars,
                   historyVars>>

\* prepare_to_wait_event: on the wait queue, TASK_INTERRUPTIBLE
queue_wait_prepare ==
    /\ wpc = "q_prep"
    /\ wq_armed' = TRUE
    /\ faults' = WorkerTouch
    /\ wpc' = "q_recheck"
    /\ UNCHANGED <<nonThreadVars,
                   kind, priv, info_alloc, handleFlags, cleanerVars, queueVars,
                   creatorVars, stopperVars, kickerVars, historyVars>>

\* the condition is tested again after prepare_to_wait; finish_wait if it holds
queue_wait_recheck ==
    /\ wpc = "q_recheck"
    /\ faults' = WorkerTouch
    /\ IF QueueWaitCond
       THEN wq_armed' = FALSE /\ wpc' = "q_run"
       ELSE wq_armed' = wq_armed /\ wpc' = "q_sched"
    /\ UNCHANGED <<nonThreadVars,
                   kind, priv, info_alloc, handleFlags, cleanerVars, queueVars,
                   creatorVars, stopperVars, kickerVars, historyVars>>

\* schedule(): returns once a wake_up has made the task runnable
queue_wait_schedule ==
    /\ wpc = "q_sched"
    /\ ~wq_armed
    /\ wpc' = "q_prep"
    /\ UNCHANGED <<nonThreadVars,
                   kind, priv, info_alloc, handleFlags, wq_armed, cleanerVars,
                   queueVars, creatorVars, stopperVars, kickerVars, faults,
                   historyVars>>

\* ocf_queue_run(q) is entered: it will process what is queued now
queue_run_begin ==
    /\ wpc = "q_run"
    /\ batch' = pending
    /\ midKick' = IF midKick = "kicked" THEN "rerun" ELSE midKick
    /\ wpc' = "q_running"
    /\ UNCHANGED <<nonThreadVars,
                   kind, priv, info_alloc, handleFlags, wq_armed, cleanerVars,
                   pending, enqueues, creatorVars, stopperVars, kickerVars,
                   faults, warned, enqAfterStop, kickWaiting, passTargetIsMin,
                   passesAfterStop>>

\* ocf_queue_run(q) returns: the requests it found are processed, and possibly
\* some of those pushed while it ran
queue_run_end ==
    /\ wpc = "q_running"
    /\ \E n \in batch..pending : pending' = pending - n
    /\ batch' = 0
    /\ wpc' = "q_loop_stop"
    /\ UNCHANGED <<nonThreadVars,
                   kind, priv, info_alloc, handleFlags, wq_armed, cleanerVars,
                   enqueues, creatorVars, stopperVars, kickerVars, faults,
                   historyVars>>

\* mutant of queue_loop_stop: while (!stop && pending), the loop ends on an
\* empty queue although stop was not requested
queue_loop_stop_and ==
    /\ wpc = "q_loop_stop"
    /\ faults' = WorkerTouch
    /\ wpc' = IF stop = 0 /\ pending > 0 THEN "q_wait" ELSE "q_warn"
    /\ UNCHANGED <<nonThreadVars,
                   kind, priv, info_alloc, handleFlags, wq_armed, cleanerVars,
                   queueVars, creatorVars, stopperVars, kickerVars,
                   historyVars>>

\* while (!atomic_read(&info->stop) || ...): the first operand
queue_loop_stop ==
    /\ wpc = "q_loop_stop"
    /\ faults' = WorkerTouch
    /\ wpc' = IF stop = 0 THEN "q_wait" ELSE "q_loop_pending"
    /\ UNCHANGED <<nonThreadVars,
                   kind, priv, info_alloc, handleFlags, wq_armed, cleanerVars,
                   queueVars, creatorVars, stopperVars, kickerVars,
                   historyVars>>

\* mutant of queue_loop_pending: while (!atomic_read(&info->stop)), the
\* pending count is not looked at
queue_loop_pending_ignored ==
    /\ wpc = "q_loop_pending"
    /\ wpc' = "q_warn"
    /\ UNCHANGED <<nonThreadVars,
                   kind, priv, info_alloc, handleFlags, wq_armed, cleanerVars,
                   queueVars, creatorVars, stopperVars, kickerVars, faults,
                   historyVars>>

\* while (... || ocf_queue_pending_io(q)): the second operand, read when stop is set
queue_loop_pending ==
    /\ wpc = "q_loop_pending"
    /\ wpc' = IF pending > 0 THEN "q_wait" ELSE "q_warn"
    /\ UNCHANGED <<nonThreadVars,
                   kind, priv, info_alloc, handleFlags, wq_armed, cleanerVars,
                   queueVars, creatorVars, stopperVars, kickerVars, faults,
                   historyVars>>

\* WARN(ocf_queue_pending_io(q), "Still pending IO requests\n")
queue_warn ==
    /\ wpc = "q_warn"
    /\ warned' = (warned \/ pending > 0)
    /\ wpc' = "q_exit"
    /\ UNCHANGED <<nonThreadVars,
                   kind, priv, info_alloc, handleFlags, wq_armed, cleanerVars,
                   queueVars, creatorVars, stopperVars, kickerVars, faults,
                   enqAfterStop, midKick, kickWaiting, passTargetIsMin,
                   passesAfterStop>>

\* CAS_COMPLETE_AND_EXIT(&info->compl, 0): signal exit, the thread ends
queue_exit ==
    /\ wpc = "q_exit"
    /\ compl' = compl + 1
    /\ faults' = WorkerTouch
    /\ wpc' = "exited"
    /\ UNCHANGED <<nonThreadVars,
                   kind, priv, info_alloc, stop, kicked, sync_compl, sync_data,
                   wq_armed, cleanerVars, queueVars, creatorVars, stopperVars,
                   kickerVars, historyVars>>

QueueWorker ==
    \/ queue_thread_run_entry
    \/ queue_thread_run_started
    \/ queue_wait_fast
    \/ queue_wait_prepare
    \/ queue_wait_recheck
    \/ queue_wait_schedule
    \/ queue_run_begin
    \/ queue_run_end
    \/ queue_loop_stop
    \/ queue_loop_pending
    \/ queue_warn
    \/ queue_exit

\* the cache engine pushes a request onto the worker's queue (the queue exists
\* before its worker is created and after the worker has gone)
Enqueue ==
    /\ kind = "queue"
    /\ enqueues < MaxEnqueues
    /\ pending' = pending + 1
    /\ enqueues' = enqueues + 1
    /\ enqAfterStop' = (enqAfterStop \/ stopCalls > 0)
    /\ UNCHANGED <<nonThreadVars,
                   kind, priv, info_alloc, handleFlags, wq_armed, wpc,
                   cleanerVars, batch, creatorVars, stopperVars, kickerVars,
                   faults, warned, midKick, kickWaiting, passTargetIsMin,
                   passesAfterStop>>

\* -------------------------------------------------------- cleaner worker
\* wait_event_interruptible[_timeout](info->wq, kicked || stop[, timeout])
CleanerWaitCond == kicked = 1 \/ stop = 1

\* info = ocf_cleaner_get_priv(c); BUG_ON(!info)
cleaner_thread_run_entry ==
    /\ wpc = "c_entry"
    /\ wpc' = IF priv = "NULL" THEN "BUG" ELSE "c_started"
    /\ UNCHANGED <<nonThreadVars,
                   kind, priv, info_alloc, handleFlags, wq_armed, cleanerVars,
                   queueVars, creatorVars, stopperVars, kickerVars, faults,
                   historyVars>>

\* complete(&info->compl): the thread has started
cleaner_thread_run_started ==
    /\ wpc = "c_started"
    /\ compl' = compl + 1
    /\ faults' = WorkerTouch
    /\ wpc' = "c_setup"
    /\ UNCHANGED <<nonThreadVars,
                   kind, priv, info_alloc, stop, kicked, sync_compl, sync_data,
                   wq_armed, cleanerVars, queueVars, creatorVars, stopperVars,
                   kickerVars, historyVars>>

\* info->sync_data = &ms; ocf_cleaner_set_cmpl(c, _cas_cleaner_complete)
cleaner_thread_run_setup ==
    /\ wpc = "c_setup"
    /\ sync_data' = "ms"
    /\ faults' = WorkerTouch
    /\ wpc' = "c_loop_stop"
    /\ UNCHANGED <<nonThreadVars,
                   kind, priv, info_alloc, stop, kicked, compl, sync_compl,
                   wq_armed, cleanerVars, queueVars, creatorVars, stopperVars,
                   kickerVars, historyVars>>

\* mutant of cleaner_loop_stop: a kick keeps a stopped cleaner going
cleaner_loop_stop_unless_kicked ==
    /\ wpc = "c_loop_stop"
    /\ faults' = WorkerTouch
    /\ wpc' = IF stop = 1 /\ kicked = 0 THEN "c_print" ELSE "c_clear_kicked"
    /\ UNCHANGED <<nonThreadVars,
                   kind, priv, info_alloc, handleFlags, wq_armed, cleanerVars,
                   queueVars, creatorVars, stopperVars, kickerVars,
                   historyVars>>

\* mutant of cleaner_loop_stop: the stop test at the top of the loop is missing
cleaner_loop_stop_missing ==
    /\ wpc = "c_loop_stop"
    /\ faults' = WorkerTouch
    /\ wpc' = "c_clear_kicked"
    /\ UNCHANGED <<nonThreadVars,
                   kind, priv, info_alloc, handleFlags, wq_armed, cleanerVars,
                   queueVars, creatorVars, stopperVars, kickerVars,
                   historyVars>>

\* if (atomic_read(&info->stop)) break;
cleaner_loop_stop ==
    /\ wpc = "c_loop_stop"
    /\ faults' = WorkerTouch
    /\ wpc' = IF stop = 1 THEN "c_print" ELSE "c_clear_kicked"
    /\ UNCHANGED <<nonThreadVars,
                   kind, priv, info_alloc, handleFlags, wq_armed, cleanerVars,
                   queueVars, creatorVars, stopperVars, kickerVars,
                   historyVars>>

\* atomic_set(&info->kicked, 0)
cleaner_clear_kicked ==
    /\ wpc = "c_clear_kicked"
    /\ kicked' = 0
    /\ faults' = WorkerTouch
    /\ wpc' = "c_init_compl"
    /\ UNCHANGED <<nonThreadVars,
                   kind, priv, info_alloc, stop, compl, sync_compl, sync_data,
                   wq_armed, cleanerVars, queueVars, creatorVars, stopperVars,
                   kickerVars, historyVars>>

\* init_completion(&info->sync_compl)
cleaner_init_sync_compl ==
    /\ wpc = "c_init_compl"
    /\ sync_compl' = 0
    /\ faults' = WorkerTouch
    /\ wpc' = "c_run"
    /\ UNCHANGED <<nonThreadVars,
                   kind, priv, info_alloc, stop, kicked, compl, sync_data,
                   wq_armed, cleanerVars, queueVars, creatorVars, stopperVars,
                   kickerVars, historyVars>>

\* ocf_cleaner_run(c, cache_get_fastest_porter_queue(cache)): the pending
\* counts of the porter queues are whatever their users left there (io), a
\* pass is started on the chosen queue
cleaner_run ==
    /\ wpc = "c_run"
    /\ \E io \in PendingArrays :
         LET q == cache_get_fastest_porter_queue(io) IN
           /\ inflight' = Append(inflight, q)
           /\ passTargetIsMin' =
                (/\ passTargetIsMin
                 /\ \A j \in 1..NumCpus : io[q] <= io[j]
                 /\ \A j \in 1..(q - 1) : io[j] > io[q])
    /\ kickWaiting' = FALSE
    /\ passesAfterStop' = IF stop = 1 /\ passesAfterStop < 2
                          THEN passesAfterStop + 1
                          ELSE passesAfterStop
    /\ wpc' = "c_wait_pass"
    /\ UNCHANGED <<nonThreadVars,
                   kind, priv, info_alloc, handleFlags, wq_armed, ms, expired,
                   queueVars, creatorVars, stopperVars, kickerVars, faults,
                   warned, enqAfterStop, midKick>>

\* mutant of cleaner_wait_pass: the pass's completion is not waited for
cleaner_wait_pass_skipped ==
    /\ wpc = "c_wait_pass"
    /\ faults' = WorkerTouch
    /\ wpc' = "c_test_ms"
    /\ UNCHANGED <<nonThreadVars,
                   kind, priv, info_alloc, handleFlags, wq_armed, cleanerVars,
                   queueVars, creatorVars, stopperVars, kickerVars,
                   historyVars>>

\* wait_for_completion(&info->sync_compl)
cleaner_wait_pass ==
    /\ wpc = "c_wait_pass"
    /\ sync_compl > 0
    /\ sync_compl' = sync_compl - 1
    /\ faults' = WorkerTouch
    /\ wpc' = "c_test_ms"
    /\ UNCHANGED <<nonThreadVars,
                   kind, priv, info_alloc, stop, kicked, compl, sync_data,
                   wq_armed, cleanerVars, queueVars, creatorVars, stopperVars,
                   kickerVars, historyVars>>

\* mutant of cleaner_test_ms: the disabled interval is not told apart, the
\* wait always has a timeout
cleaner_test_ms_always_timed ==
    /\ wpc = "c_test_ms"
    /\ wpc' = "ct_wait"
    /\ expired' = FALSE
    /\ UNCHANGED <<nonThreadVars,
                   kind, priv, info_alloc, handleFlags, wq_armed, ms, inflight,
                   queueVars, creatorVars, stopperVars, kickerVars, faults,
                   historyVars>>

\* if (ms == OCF_CLEANER_DISABLE) wait_event_interruptible(...)
\* else wait_event_interruptible_timeout(..., msecs_to_jiffies(ms));
\* a ms that was never written is an indeterminate value
cleaner_test_ms ==
    /\ wpc = "c_test_ms"
    /\ \E v \in (IF ms = "unset" THEN Intervals ELSE {ms}) :
         wpc' = IF v = OCF_CLEANER_DISABLE THEN "c_wait" ELSE "ct_wait"
    /\ expired' = FALSE
    /\ UNCHANGED <<nonThreadVars,
                   kind, priv, info_alloc, handleFlags, wq_armed, ms, inflight,
                   queueVars, creatorVars, stopperVars, kickerVars, faults,
                   historyVars>>

\* wait_event_interruptible: the condition is tested before any sleep
cleaner_wait_fast ==
    /\ wpc = "c_wait"
    /\ faults' = WorkerTouch
    /\ wpc' = IF CleanerWaitCond THEN "c_loop_stop" ELSE "c_prep"
    /\ UNCHANGED <<nonThreadVars,
                   kind, priv, info_alloc, handleFlags, wq_armed, cleanerVars,
                   queueVars, creatorVars, stopperVars, kickerVars,
                   historyVars>>

\* prepare_to_wait_event
cleaner_wait_prepare ==
    /\ wpc = "c_prep"
    /\ wq_armed' = TRUE
    /\ faults' = WorkerTouch
    /\ wpc' = "c_recheck"
    /\ UNCHANGED <<nonThreadVars,
                   kind, priv, info_alloc, handleFlags, cleanerVars, queueVars,
                   creatorVars, stopperVars, kickerVars, historyVars>>

\* the condition is tested again; finish_wait if it holds
cleaner_wait_recheck ==
    /\ wpc = "c_recheck"
    /\ faults' = WorkerTouch
    /\ IF CleanerWaitCond
       THEN wq_armed' = FALSE /\ wpc' = "c_loop_stop"
       ELSE wq_armed' = wq_armed /\ wpc' = "c_sched"
    /\ UNCHANGED <<nonThreadVars,
                   kind, priv, info_alloc, handleFlags, cleanerVars, queueVars,
                   creatorVars, stopperVars, kickerVars, historyVars>>

\* schedule(): returns once a wake_up has made the task runnable
cleaner_wait_schedule ==
    /\ wpc = "c_sched"
    /\ ~wq_armed
    /\ wpc' = "c_prep"
    /\ UNCHANGED <<nonThreadVars,
                   kind, priv, info_alloc, handleFlags, wq_armed, cleanerVars,
                   queueVars, creatorVars, stopperVars, kickerVars, faults,
                   historyVars>>

\* wait_event_interruptible_timeout: the wait is over at once when the
\* condition holds or the timeout is zero
cleaner_timed_wait_fast ==
    /\ wpc = "ct_wait"
    /\ faults' = WorkerTouch
    /\ wpc' = IF CleanerWaitCond \/ ms = "0ms" THEN "c_loop_stop" ELSE "ct_prep"
    /\ UNCHANGED <<nonThreadVars,
                   kind, priv, info_alloc, handleFlags, wq_armed, cleanerVars,
                   queueVars, creatorVars, stopperVars, kickerVars,
                   historyVars>>

\* prepare_to_wait_event
cleaner_timed_wait_prepare ==
    /\ wpc = "ct_prep"
    /\ wq_armed' = TRUE
    /\ faults' = WorkerTouch
    /\ wpc' = "ct_recheck"
    /\ UNCHANGED <<nonThreadVars,
                   kind, priv, info_alloc, handleFlags, cleanerVars, queueVars,
                   creatorVars, stopperVars, kickerVars, historyVars>>

\* ___wait_cond_timeout: the condition holds or no time is left
cleaner_timed_wait_recheck ==
    /\ wpc = "ct_recheck"
    /\ faults' = WorkerTouch
    /\ IF CleanerWaitCond \/ expired
       THEN wq_armed' = FALSE /\ wpc' = "c_loop_stop"
       ELSE wq_armed' = wq_armed /\ wpc' = "ct_sched"
    /\ UNCHANGED <<nonThreadVars,
                   kind, priv, info_alloc, handleFlags, cleanerVars, queueVars,
                   creatorVars, stopperVars, kickerVars, historyVars>>

\* schedule_timeout(): returns once the task was woken, by wake_up or the timer
cleaner_timed_wait_schedule ==
    /\ wpc = "ct_sched"
    /\ ~wq_armed
    /\ wpc' = "ct_prep"
    /\ UNCHANGED <<nonThreadVars,
                   kind, priv, info_alloc, handleFlags, wq_armed, cleanerVars,
                   queueVars, creatorVars, stopperVars, kickerVars, faults,
                   historyVars>>

\* the timer of schedule_timeout() runs out and wakes the task
TimerExpires ==
    /\ wpc = "ct_sched"
    /\ wq_armed
    /\ expired' = TRUE
    /\ wq_armed' = FALSE
    /\ UNCHANGED <<nonThreadVars,
                   kind, priv, info_alloc, handleFlags, wpc, ms, inflight,
                   queueVars, creatorVars, stopperVars, kickerVars, faults,
                   historyVars>>

\* cache_print_each_porter_queue_pending_io(cache)
cleaner_print ==
    /\ wpc = "c_print"
    /\ wpc' = "c_exit"
    /\ UNCHANGED <<nonThreadVars,
                   kind, priv, info_alloc, handleFlags, wq_armed, cleanerVars,
                   queueVars, creatorVars, stopperVars, kickerVars, faults,
                   historyVars>>

\* CAS_COMPLETE_AND_EXIT(&info->compl, 0)
cleaner_exit ==
    /\ wpc = "c_exit"
    /\ compl' = compl + 1
    /\ faults' = WorkerTouch
    /\ wpc' = "exited"
    /\ UNCHANGED <<nonThreadVars,
                   kind, priv, info_alloc, stop, kicked, sync_compl, sync_data,
                   wq_armed, cleanerVars, queueVars, creatorVars, stopperVars,
                   kickerVars, historyVars>>

\* _cas_cleaner_complete(c, interval), called by the cleaning engine when the
\* oldest pass in flight ends: info = ocf_cleaner_get_priv(c);
\* *info->sync_data = interval; complete(&info->sync_compl)
cas_cleaner_complete ==
    /\ inflight # <<>>
    /\ inflight' = Tail(inflight)
    /\ \E interval \in Intervals :
         IF priv = "NULL" \/ info_alloc # "live" \/ sync_data = "NULL"
         THEN /\ faults' = faults \cup {"complete_bad_pointer"}
              /\ UNCHANGED <<ms, sync_compl>>
         ELSE /\ ms' = interval
              /\ sync_compl' = sync_compl + 1
              /\ faults' = faults
    /\ UNCHANGED <<nonThreadVars,
                   kind, priv, info_alloc, stop, kicked, compl, sync_data,
                   wq_armed, wpc, expired, queueVars, creatorVars, stopperVars,
                   kickerVars, historyVars>>

CleanerWorker ==
    \/ cleaner_thread_run_entry
    \/ cleaner_thread_run_started
    \/ cleaner_thread_run_setup
    \/ cleaner_loop_stop
    \/ cleaner_clear_kicked
    \/ cleaner_init_sync_compl
    \/ cleaner_run
    \/ cleaner_wait_pass
    \/ cleaner_test_ms
    \/ cleaner_wait_fast
    \/ cleaner_wait_prepare
    \/ cleaner_wait_recheck
    \/ cleaner_wait_schedule
    \/ cleaner_timed_wait_fast
    \/ cleaner_timed_wait_prepare
    \/ cleaner_timed_wait_recheck
    \/ cleaner_timed_wait_schedule
    \/ cleaner_print
    \/ cleaner_exit

\* --------------------------------------------------------------- stopper
\* cas_stop_queue_thread / cas_stop_cleaner_thread is called (by the owner,
\* once create has returned 0): info = ocf_*_get_priv(...)
cas_stop_get_priv ==
    /\ spc = "idle"
    /\ result = "ok"
    /\ stopCalls < MaxStopCalls
    /\ stopCalls' = stopCalls + 1
    /\ s_info' = priv
    /\ spc' = IF kind = "queue" THEN "clear_priv" ELSE "test"
    /\ UNCHANGED <<nonThreadVars,
                   kind, priv, info_alloc, handleFlags, wq_armed, wpc,
                   cleanerVars, queueVars, creatorVars, kickerVars, faults,
                   historyVars>>

\* mutant of cas_stop_clear_priv: the private slot keeps the handle
cas_stop_clear_priv_forgotten ==
    /\ spc = "clear_priv"
    /\ spc' = IF kind = "queue" THEN "test" ELSE "idle"
    /\ UNCHANGED <<nonThreadVars,
                   kind, priv, info_alloc, handleFlags, wq_armed, wpc,
                   cleanerVars, queueVars, creatorVars, s_info, stopCalls,
                   kickerVars, faults, historyVars>>

\* ocf_*_set_priv(..., NULL): before _cas_stop_thread for a queue, after it
\* for the cleaner, which then returns
cas_stop_clear_priv ==
    /\ spc = "clear_priv"
    /\ priv' = "NULL"
    /\ spc' = IF kind = "queue" THEN "test" ELSE "idle"
    /\ UNCHANGED <<nonThreadVars,
                   kind, info_alloc, handleFlags, wq_armed, wpc, cleanerVars,
                   queueVars, creatorVars, s_info, stopCalls, kickerVars,
                   faults, historyVars>>

\* _cas_stop_thread: if (info && info->thread)
cas_stop_thread_test ==
    /\ spc = "test"
    /\ spc' = IF s_info # "NULL" THEN "reinit" ELSE "free"
    /\ faults' = IF s_info # "NULL" /\ info_alloc = "freed"
                 THEN faults \cup {"stop_uaf"} ELSE faults
    /\ UNCHANGED <<nonThreadVars,
                   kind, priv, info_alloc, handleFlags, wq_armed, wpc,
                   cleanerVars, queueVars, creatorVars, s_info, stopCalls,
                   kickerVars, historyVars>>

\* reinit_completion(&info->compl)
cas_stop_thread_reinit ==
    /\ spc = "reinit"
    /\ compl' = 0
    /\ spc' = "set_stop"
    /\ UNCHANGED <<nonThreadVars,
                   kind, priv, info_alloc, stop, kicked, sync_compl, sync_data,
                   wq_armed, wpc, cleanerVars, queueVars, creatorVars, s_info,
                   stopCalls, kickerVars, faults, historyVars>>

\* atomic_set(&info->stop, 1)
cas_stop_thread_set_stop ==
    /\ spc = "set_stop"
    /\ stop' = 1
    /\ spc' = "wake"
    /\ UNCHANGED <<nonThreadVars,
                   kind, priv, info_alloc, kicked, compl, sync_compl, sync_data,
                   wq_armed, wpc, cleanerVars, queueVars, creatorVars, s_info,
                   stopCalls, kickerVars, faults, historyVars>>

\* mutant of cas_stop_thread_wake: the wake_up after setting stop is missing
cas_stop_thread_wake_missing ==
    /\ spc = "wake"
    /\ spc' = "wait"
    /\ UNCHANGED <<nonThreadVars,
                   kind, priv, info_alloc, handleFlags, wq_armed, wpc,
                   cleanerVars, queueVars, creatorVars, s_info, stopCalls,
                   kickerVars, faults, historyVars>>

\* wake_up(&info->wq)
cas_stop_thread_wake ==
    /\ spc = "wake"
    /\ wq_armed' = FALSE
    /\ spc' = "wait"
    /\ UNCHANGED <<nonThreadVars,
                   kind, priv, info_alloc, handleFlags, wpc, cleanerVars,
                   queueVars, creatorVars, s_info, stopCalls, kickerVars,
                   faults, historyVars>>

\* mutant of cas_stop_thread_wait: the worker's exit is not waited for
cas_stop_thread_wait_skipped ==
    /\ spc = "wait"
    /\ spc' = "free"
    /\ UNCHANGED <<nonThreadVars,
                   kind, priv, info_alloc, handleFlags, wq_armed, wpc,
                   cleanerVars, queueVars, creatorVars, s_info, stopCalls,
                   kickerVars, faults, historyVars>>

\* wait_for_completion(&info->compl)
cas_stop_thread_wait ==
    /\ spc = "wait"
    /\ compl > 0
    /\ compl' = compl - 1
    /\ spc' = "free"
    /\ UNCHANGED <<nonThreadVars,
                   kind, priv, info_alloc, stop, kicked, sync_compl, sync_data,
                   wq_armed, wpc, cleanerVars, queueVars, creatorVars, s_info,
                   stopCalls, kickerVars, faults, historyVars>>

\* kfree(info) (a no-op for NULL); cas_stop_queue_thread then returns
cas_stop_thread_free ==
    /\ spc = "free"
    /\ info_alloc' = IF s_info # "NULL" THEN "freed" ELSE info_alloc
    /\ faults' = IF s_info # "NULL" /\ info_alloc = "freed"
                 THEN faults \cup {"double_free"} ELSE faults
    /\ spc' = IF kind = "queue" THEN "idle" ELSE "clear_priv"
    /\ UNCHANGED <<nonThreadVars,
                   kind, priv, handleFlags, wq_armed, wpc, cleanerVars,
                   queueVars, creatorVars, s_info, stopCalls, kickerVars,
                   historyVars>>

Stopper ==
    \/ cas_stop_get_priv
    \/ cas_stop_clear_priv
    \/ cas_stop_thread_test
    \/ cas_stop_thread_reinit
    \/ cas_stop_thread_set_stop
    \/ cas_stop_thread_wake
    \/ cas_stop_thread_wait
    \/ cas_stop_thread_free

\* ---------------------------------------------------------------- kicker
\* cas_kick_queue_thread / cas_kick_cleaner_thread is called (by a user of the
\* queue / cleaner, once create has returned 0): info = ocf_*_get_priv(...)
cas_kick_get_priv(k) ==
    /\ kpc[k] = "idle"
    /\ result = "ok"
    /\ kicks < MaxKicks
    /\ kicks' = kicks + 1
    /\ k_info' = [k_info EXCEPT ![k] = priv]
    /\ kpc' = [kpc EXCEPT ![k] = IF kind = "queue" THEN "wake" ELSE "set_kicked"]
    /\ UNCHANGED <<nonThreadVars,
                   kind, priv, info_alloc, handleFlags, wq_armed, wpc,
                   cleanerVars, queueVars, creatorVars, stopperVars, faults,
                   historyVars>>

\* mutant of cas_kick_set_kicked: the kick only wakes, the kicked flag is not set
cas_kick_set_kicked_forgotten(k) ==
    /\ kpc[k] = "set_kicked"
    /\ IF k_info[k] = "NULL"
       THEN /\ faults' = faults \cup {"kick_null"}
            /\ kpc' = [kpc EXCEPT ![k] = "oops"]
            /\ UNCHANGED kickWaiting
       ELSE /\ kickWaiting' = (kickWaiting \/ info_alloc = "live")
            /\ kpc' = [kpc EXCEPT ![k] = "wake"]
            /\ faults' = faults
    /\ UNCHANGED <<nonThreadVars,
                   kind, priv, info_alloc, handleFlags, wq_armed, wpc,
                   cleanerVars, queueVars, creatorVars, stopperVars, k_info,
                   kicks, warned, enqAfterStop, midKick, passTargetIsMin,
                   passesAfterStop>>

\* cas_kick_cleaner_thread: atomic_set(&info->kicked, 1). A NULL info is an
\* oops that ends the calling task; a freed info is a write to freed memory,
\* after which the call goes on or ends in an oops.
cas_kick_set_kicked(k) ==
    /\ kpc[k] = "set_kicked"
    /\ IF k_info[k] = "NULL"
       THEN /\ faults' = faults \cup {"kick_null"}
            /\ kpc' = [kpc EXCEPT ![k] = "oops"]
            /\ UNCHANGED <<kicked, kickWaiting>>
       ELSE IF info_alloc = "freed"
       THEN /\ faults' = faults \cup {"kick_uaf"}
            /\ \E to \in {"wake", "oops"} : kpc' = [kpc EXCEPT ![k] = to]
            /\ UNCHANGED <<kicked, kickWaiting>>
       ELSE /\ kicked' = 1
            /\ kickWaiting' = TRUE
            /\ kpc' = [kpc EXCEPT ![k] = "wake"]
            /\ faults' = faults
    /\ UNCHANGED <<nonThreadVars,
                   kind, priv, info_alloc, stop, compl, sync_compl, sync_data,
                   wq_armed, wpc, cleanerVars, queueVars, creatorVars,
                   stopperVars, k_info, kicks, warned, enqAfterStop, midKick,
                   passTargetIsMin,
                   passesAfterStop>>

\* wake_up(&info->wq), with the same outcomes for a NULL or freed info
cas_kick_wake_up(k) ==
    /\ kpc[k] = "wake"
    /\ IF k_info[k] = "NULL"
       THEN /\ faults' = faults \cup {"kick_null"}
            /\ kpc' = [kpc EXCEPT ![k] = "oops"]
            /\ UNCHANGED <<wq_armed, midKick>>
       ELSE IF info_alloc = "freed"
       THEN /\ faults' = faults \cup {"kick_uaf"}
            /\ \E to \in {"idle", "oops"} : kpc' = [kpc EXCEPT ![k] = to]
            /\ UNCHANGED <<wq_armed, midKick>>
       ELSE /\ wq_armed' = FALSE
            /\ midKick' = IF wpc = "q_running" THEN "kicked" ELSE midKick
            /\ kpc' = [kpc EXCEPT ![k] = "idle"]
            /\ faults' = faults
    /\ UNCHANGED <<nonThreadVars,
                   kind, priv, info_alloc, handleFlags, wpc, cleanerVars,
                   queueVars, creatorVars, stopperVars, k_info, kicks, warned,
                   enqAfterStop, kickWaiting, passTargetIsMin,
                   passesAfterStop>>

Kicker ==
    \E k \in Kickers :
        \/ cas_kick_get_priv(k)
        \/ cas_kick_set_kicked(k)
        \/ cas_kick_wake_up(k)

\* ------------------------------------------------------------ the program
Creator ==
    \/ cas_create_thread_fail
    \/ cas_create_thread_ok
    \/ cas_create_set_priv
    \/ cas_start_thread_wake
    \/ cas_start_thread_wait

Next ==
    \/ Creator
    \/ QueueWorker
    \/ Enqueue
    \/ CleanerWorker
    \/ cas_cleaner_complete
    \/ TimerExpires
    \/ Stopper
    \/ Kicker

Spec == Init /\ [][Next]_vars

\* Scheduling: every thread that can run is eventually run (the worker, the
\* stopper, a kick call under way), and a cleaning pass that was started
\* eventually calls its completion callback.  New calls, enqueues and the
\* timer are under no obligation.
KickUnderWay(k) == cas_kick_set_kicked(k) \/ cas_kick_wake_up(k)
StopUnderWay ==
    \/ cas_stop_clear_priv
    \/ cas_stop_thread_test
    \/ cas_stop_thread_reinit
    \/ cas_stop_thread_set_stop
    \/ cas_stop_thread_wake
    \/ cas_stop_thread_wait
    \/ cas_stop_thread_free

FairSpec ==
    /\ Spec
    /\ WF_vars(QueueWorker)
    /\ WF_vars(CleanerWorker)
    /\ WF_vars(cas_cleaner_complete)
    /\ WF_vars(StopUnderWay)
    /\ \A k \in Kickers : WF_vars(KickUnderWay(k))

\* ---------------------------------------------------- exported object code
\* The management calls (create, activate, destroy, free) are made by one
\* caller, one at a time; each is followed statement by statement, and the
\* kernel decides at each step that can fail whether it does.
\* A call that trips a BUG_ON leaves its task at "bug" for good; one that
\* follows a pointer to freed memory leaves it at "ub": anything may follow,
\* and the model follows that call no further.

\* dsk->exp_obj points at an object that has not been freed
ObjValid == dsk.exp_obj # "NULL" /\ kern.obj_mem = "live"

\* a new call: its inputs cleared, the count of creates carried on
NewCall(op) ==
    [CallNone EXCEPT
        !.op = op, !.creates = call.creates,
        !.prev = [op |-> call.op, ret |-> eret, name_len |-> call.name_len]]

\* the call moves on to the statement at pc
Goto(pc) ==
    /\ epc' = pc
    /\ UNCHANGED <<nonExpVars, openVars, bd_whole, pre, eret>>

\* the call returns r
Return(r) ==
    /\ epc' = "idle"
    /\ eret' = r
    /\ UNCHANGED <<nonExpVars, openVars, bd_whole, pre>>

Log(ops) == oplog' = oplog \o ops

\* mutant of cas_exp_obj_clear_dev_t: only the minors are restored
cas_exp_obj_clear_dev_t_minors_only(g, d) ==
    IF bd_whole THEN [g EXCEPT !.minors = d.gd_minors] ELSE g

\* _cas_exp_obj_clear_dev_t: the backing gendisk g gets the saved minors and
\* flags of d back when the backing device is a whole disk
cas_exp_obj_clear_dev_t(g, d) ==
    IF bd_whole
    THEN [g EXCEPT !.minors = d.gd_minors, !.flags = @ \cup d.gd_flags]
    ELSE g

\* kobject_put(&exp_obj->kobj) dropping the only reference: the kobject
\* leaves sysfs and _cas_exp_obj_release runs: kfree(dev_name), the object
\* goes back to its cache, module_put(owner) if owner is set
kobject_put(k, e) ==
    [k EXCEPT !.kobj = "released",
              !.name_mem = IF e.dev_name # 0 THEN "freed" ELSE @,
              !.obj_mem = "freed",
              !.module_refs = IF e.owner # "NULL" THEN @ - 1 ELSE @]

kobject_put_ops(e) ==
    <<"kobject_put", "kfree_dev_name", "kmem_cache_free">>
    \o (IF e.owner # "NULL" THEN <<"module_put">> ELSE <<>>)

\* mutant of name_too_long: a name of DISK_NAME_LEN characters passes
name_too_long_by_two(len) == len > DISK_NAME_LEN

\* strlen(dev_name) >= DISK_NAME_LEN
name_too_long(len) == len >= DISK_NAME_LEN

\* cas_exp_obj_create, lines 402-418: BUG_ON(dsk->exp_obj), the name check
cas_exp_obj_create_entry ==
    /\ epc = "idle"
    /\ call.creates < MaxCreates
    /\ \E len \in NameLens, geom \in BOOLEAN :
         /\ call' = [NewCall("create") EXCEPT !.creates = @ + 1,
                                              !.name_len = len,
                                              !.set_geometry = geom]
         /\ IF dsk.exp_obj # "NULL"
            THEN epc' = "bug" /\ eret' = "BUG_ON_exp_obj"
            ELSE IF name_too_long(len)
                 THEN epc' = "idle" /\ eret' = "-EINVAL"
                 ELSE epc' = "c_alloc" /\ eret' = "none"
    /\ oplog' = <<>>
    /\ eresult' = "0"
    /\ pre' = [gdsk |-> gdsk, kern |-> kern]
    /\ UNCHANGED <<nonExpVars, openVars, expState, efaults>>

\* what an earlier object of this cas_disk still holds when a new one takes
\* its place: nothing refers to it any more
Leaked(k) ==
    (IF k.obj_mem = "live" THEN {"leaked_object"} ELSE {})
    \cup (IF k.name_mem = "live" THEN {"leaked_dev_name"} ELSE {})
    \cup (IF k.tag_set = "alloc" THEN {"leaked_tag_set"} ELSE {})
    \cup (IF k.queue = "alloc" THEN {"leaked_queue"} ELSE {})
    \cup (IF k.disk = "alloc" THEN {"leaked_gendisk"} ELSE {})
    \cup (IF k.added \/ k.holder \/ k.link THEN {"leaked_registration"} ELSE {})

\* result = cas_exp_obj_alloc(dsk); exp_obj = dsk->exp_obj.  kern follows the
\* new object from here on; the minors handed out and the module's
\* reference count carry over
create_alloc ==
    /\ epc = "c_alloc"
    /\ \E ok \in BOOLEAN :
         IF ok
         THEN /\ kern' = [KernNone EXCEPT !.obj_mem = "live",
                                          !.minors = kern.minors,
                                          !.module_refs = kern.module_refs]
              /\ efaults' = efaults \cup Leaked(kern)
              /\ exp' = ExpZero
              /\ dsk' = [dsk EXCEPT !.exp_obj = "obj"]
              /\ Log(<<"kmem_cache_zalloc">>)
              /\ Goto("c_kstrdup")
              /\ UNCHANGED eresult
         ELSE /\ eresult' = "-ENOMEM"
              /\ Log(<<"fail">>)
              /\ Goto("error_exp_obj_alloc")
              /\ UNCHANGED <<kern, exp, dsk, efaults>>
    /\ UNCHANGED <<gdsk, gd, call>>

\* exp_obj->dev_name = kstrdup(dev_name, GFP_KERNEL)
create_kstrdup ==
    /\ epc = "c_kstrdup"
    /\ \E ok \in BOOLEAN :
         IF ok
         THEN /\ kern' = [kern EXCEPT !.name_mem = "live"]
              /\ exp' = [exp EXCEPT !.dev_name = call.name_len]
              /\ Log(<<"kstrdup">>)
              /\ Goto("c_module_get")
              /\ UNCHANGED eresult
         ELSE /\ eresult' = "-ENOMEM"
              /\ Log(<<"fail">>)
              /\ Goto("error_kstrdup")
              /\ UNCHANGED <<kern, exp>>
    /\ UNCHANGED <<dsk, gdsk, gd, call, efaults>>

\* try_module_get(owner); exp_obj->owner = owner; exp_obj->ops = ops
create_module_get ==
    /\ epc = "c_module_get"
    /\ \E ok \in BOOLEAN :
         IF ok
         THEN /\ kern' = [kern EXCEPT !.module_refs = @ + 1]
              /\ exp' = [exp EXCEPT !.owner = "owner"]
              /\ Log(<<"try_module_get">>)
              /\ Goto("c_init_kobject")
              /\ UNCHANGED eresult
         ELSE /\ eresult' = "-ENAVAIL"
              /\ Log(<<"fail">>)
              /\ Goto("error_module_get")
              /\ UNCHANGED <<kern, exp>>
    /\ UNCHANGED <<dsk, gdsk, gd, call, efaults>>

\* _cas_exp_obj_init_kobject: kobject_init, then kobject_add under dsk->kobj
create_init_kobject ==
    /\ epc = "c_init_kobject"
    /\ \E ok \in BOOLEAN :
         IF ok
         THEN /\ kern' = [kern EXCEPT !.kobj = "added"]
              /\ Log(<<"kobject_add">>)
              /\ Goto("c_init_tag_set")
              /\ UNCHANGED eresult
         ELSE /\ kern' = [kern EXCEPT !.kobj = "init"]
              /\ eresult' = "E_kobject_add"
              /\ Log(<<"fail">>)
              /\ Goto("error_init_kobject")
    /\ UNCHANGED <<dsk, exp, gdsk, gd, call, efaults>>

\* _cas_init_tag_set: blk_mq_alloc_tag_set(&dsk->tag_set)
create_init_tag_set ==
    /\ epc = "c_init_tag_set"
    /\ \E ok \in BOOLEAN :
         IF ok
         THEN /\ kern' = [kern EXCEPT !.tag_set = "alloc"]
              /\ Log(<<"blk_mq_alloc_tag_set">>)
              /\ Goto("c_alloc_mq_disk")
              /\ UNCHANGED eresult
         ELSE /\ eresult' = "E_tag_set"
              /\ Log(<<"fail">>)
              /\ Goto("error_init_tag_set")
              /\ UNCHANGED kern
    /\ UNCHANGED <<dsk, exp, gdsk, gd, call, efaults>>

\* cas_alloc_mq_disk(&gd, &queue, &dsk->tag_set); exp_obj->gd = gd
create_alloc_mq_disk ==
    /\ epc = "c_alloc_mq_disk"
    /\ \E ok \in BOOLEAN :
         IF ok
         THEN /\ kern' = [kern EXCEPT !.queue = "alloc", !.disk = "alloc"]
              /\ exp' = [exp EXCEPT !.gd = "gd"]
              /\ gd' = GdNone
              /\ Log(<<"cas_alloc_mq_disk">>)
              /\ Goto("c_set_dev_t")
              /\ UNCHANGED eresult
         ELSE /\ eresult' = "E_alloc_mq_disk"
              /\ Log(<<"fail">>)
              /\ Goto("error_alloc_mq_disk")
              /\ UNCHANGED <<kern, exp, gd>>
    /\ UNCHANGED <<dsk, gdsk, call, efaults>>

\* _cas_exp_obj_set_dev_t, lines 197-206: minors from the backing gendisk;
\* a partition needs one minor and no flags, a whole disk goes on to
\* _cas_exp_obj_hide_parts
\* mutant of create_set_dev_t: a partition is treated as a whole disk
create_set_dev_t_always_hides ==
    /\ epc = "c_set_dev_t"
    /\ call' = [call EXCEPT !.minors = disk_max_parts(gdsk)]
    /\ Goto("c_hide_parts")
    /\ UNCHANGED <<dsk, exp, gdsk, gd, kern, eresult, oplog, efaults>>

create_set_dev_t ==
    /\ epc = "c_set_dev_t"
    /\ IF ~bd_whole
       THEN /\ call' = [call EXCEPT !.minors = 1, !.flags = {}]
            /\ Goto("c_allocate_minors")
       ELSE /\ call' = [call EXCEPT !.minors = disk_max_parts(gdsk)]
            /\ Goto("c_hide_parts")
    /\ UNCHANGED <<dsk, exp, gdsk, gd, kern, eresult, oplog, efaults>>

\* _cas_exp_obj_hide_parts on a whole disk: delete the partitions if the disk
\* can have any (on failure rescan and give up), save the flags and minors
\* in dsk, clear them in the gendisk, rescan; flags = dsk->gd_flags
create_hide_parts ==
    /\ epc = "c_hide_parts"
    /\ \E ok \in BOOLEAN :
         IF disk_max_parts(gdsk) > 1 /\ ~ok
         THEN /\ eresult' = "-EINVAL"
              /\ Log(<<"del_partitions", "fail", "reread_partitions">>)
              /\ Goto("error_exp_obj_set_dev_t")
              /\ UNCHANGED <<dsk, gdsk, call>>
         ELSE /\ dsk' = [dsk EXCEPT !.gd_flags = gdsk.flags \cap cas_flags,
                                    !.gd_minors = gdsk.minors]
              /\ gdsk' = [gdsk EXCEPT !.flags = @ \ cas_flags, !.minors = 1]
              /\ call' = [call EXCEPT !.flags = gdsk.flags \cap cas_flags]
              /\ Log((IF disk_max_parts(gdsk) > 1
                      THEN <<"del_partitions">> ELSE <<>>)
                     \o <<"hide_parts", "reread_partitions">>)
              /\ Goto("c_allocate_minors")
              /\ UNCHANGED eresult
    /\ UNCHANGED <<exp, gd, kern, efaults>>

\* gd->first_minor = cas_disk_allocate_minors(minors); gd->minors, gd->major,
\* gd->flags |= flags
create_allocate_minors ==
    /\ epc = "c_allocate_minors"
    /\ \E ok \in BOOLEAN :
         IF ok
         THEN /\ kern' = [kern EXCEPT !.minors = @ + 1]
              /\ gd' = [gd EXCEPT !.minors = call.minors,
                                  !.flags = @ \cup call.flags]
              /\ Log(<<"cas_disk_allocate_minors">>)
              /\ Goto("c_wire")
              /\ UNCHANGED eresult
         ELSE /\ eresult' = "-EINVAL"
              /\ Log(<<"fail">>)
              /\ Goto("error_exp_obj_set_dev_t")
              /\ UNCHANGED <<kern, gd>>
    /\ UNCHANGED <<dsk, exp, gdsk, call, efaults>>

\* lines 461-473: queue->queuedata, exp_obj->queue, dsk->private, the hardware
\* contexts, gd->fops, gd->private_data, strlcpy of the name, the make_request
\* function
create_wire ==
    /\ epc = "c_wire"
    /\ exp' = [exp EXCEPT !.queue = "queue"]
    /\ dsk' = [dsk EXCEPT !.private = "priv"]
    /\ gd' = [gd EXCEPT !.disk_name =
                  IF exp.dev_name < DISK_NAME_LEN
                  THEN exp.dev_name ELSE DISK_NAME_LEN - 1]
    /\ Goto("c_set_geometry")
    /\ UNCHANGED <<gdsk, kern, call, eresult, oplog, efaults>>

\* exp_obj->ops->set_geometry(dsk, dsk->private) if the operation is there;
\* return 0
create_set_geometry ==
    /\ epc = "c_set_geometry"
    /\ \E ok \in BOOLEAN :
         IF call.set_geometry /\ ~ok
         THEN /\ eresult' = "E_set_geometry"
              /\ Log(<<"fail">>)
              /\ Goto("error_set_geometry")
         ELSE /\ Log(IF call.set_geometry THEN <<"set_geometry">> ELSE <<>>)
              /\ Return("0")
              /\ UNCHANGED eresult
    /\ UNCHANGED <<expState, call, efaults>>

\* error_set_geometry: dsk->private = NULL; _cas_exp_obj_clear_dev_t(dsk)
create_error_set_geometry ==
    /\ epc = "error_set_geometry"
    /\ dsk' = [dsk EXCEPT !.private = "NULL"]
    /\ gdsk' = cas_exp_obj_clear_dev_t(gdsk, dsk)
    /\ Log(<<"clear_dev_t">>)
    /\ Goto("error_exp_obj_set_dev_t")
    /\ UNCHANGED <<exp, gd, kern, call, eresult, efaults>>

\* error_exp_obj_set_dev_t: cas_cleanup_mq_disk(exp_obj) gives the queue and
\* the gendisk of cas_alloc_mq_disk back; dsk->exp_obj->gd = NULL
create_error_exp_obj_set_dev_t ==
    /\ epc = "error_exp_obj_set_dev_t"
    /\ kern' = [kern EXCEPT !.queue = "released", !.disk = "released"]
    /\ exp' = [exp EXCEPT !.gd = "NULL"]
    /\ Log(<<"cas_cleanup_mq_disk">>)
    /\ Goto("error_alloc_mq_disk")
    /\ UNCHANGED <<dsk, gdsk, gd, call, eresult, efaults>>

\* error_alloc_mq_disk: blk_mq_free_tag_set(&dsk->tag_set)
create_error_alloc_mq_disk ==
    /\ epc = "error_alloc_mq_disk"
    /\ kern' = [kern EXCEPT !.tag_set = "released"]
    /\ Log(<<"blk_mq_free_tag_set">>)
    /\ Goto("error_init_tag_set")
    /\ UNCHANGED <<dsk, exp, gdsk, gd, call, eresult, efaults>>

\* error_init_tag_set: kobject_put(&exp_obj->kobj); return result.
\* dsk->exp_obj keeps pointing at the object the release callback freed.
create_error_init_tag_set ==
    /\ epc = "error_init_tag_set"
    /\ kern' = kobject_put(kern, exp)
    /\ Log(kobject_put_ops(exp))
    /\ Return(eresult)
    /\ UNCHANGED <<dsk, exp, gdsk, gd, call, eresult, efaults>>

\* mutant of create_error_init_kobject: the module reference is kept
create_error_init_kobject_no_put ==
    /\ epc = "error_init_kobject"
    /\ exp' = [exp EXCEPT !.owner = "NULL"]
    /\ Goto("error_module_get")
    /\ UNCHANGED <<dsk, gdsk, gd, kern, call, eresult, oplog, efaults>>

\* error_init_kobject: module_put(owner); dsk->exp_obj->owner = NULL
create_error_init_kobject ==
    /\ epc = "error_init_kobject"
    /\ kern' = [kern EXCEPT !.module_refs = @ - 1]
    /\ exp' = [exp EXCEPT !.owner = "NULL"]
    /\ Log(<<"module_put">>)
    /\ Goto("error_module_get")
    /\ UNCHANGED <<dsk, gdsk, gd, call, eresult, efaults>>

\* error_module_get: kfree(exp_obj->dev_name)
create_error_module_get ==
    /\ epc = "error_module_get"
    /\ kern' = [kern EXCEPT !.name_mem = "freed"]
    /\ Log(<<"kfree_dev_name">>)
    /\ Goto("error_kstrdup")
    /\ UNCHANGED <<dsk, exp, gdsk, gd, call, eresult, efaults>>

\* error_kstrdup: __cas_exp_obj_release(exp_obj); dsk->exp_obj = NULL
create_error_kstrdup ==
    /\ epc = "error_kstrdup"
    /\ kern' = [kern EXCEPT !.obj_mem = "freed"]
    /\ dsk' = [dsk EXCEPT !.exp_obj = "NULL"]
    /\ Log(<<"kmem_cache_free">>)
    /\ Goto("error_exp_obj_alloc")
    /\ UNCHANGED <<exp, gdsk, gd, call, eresult, efaults>>

\* error_exp_obj_alloc: return result
create_error_exp_obj_alloc ==
    /\ epc = "error_exp_obj_alloc"
    /\ Return(eresult)
    /\ UNCHANGED <<expState, call, eresult, oplog, efaults>>

cas_exp_obj_create ==
    \/ cas_exp_obj_create_entry
    \/ create_alloc
    \/ create_kstrdup
    \/ create_module_get
    \/ create_init_kobject
    \/ create_init_tag_set
    \/ create_alloc_mq_disk
    \/ create_set_dev_t
    \/ create_hide_parts
    \/ create_allocate_minors
    \/ create_wire
    \/ create_set_geometry
    \/ create_error_set_geometry
    \/ create_error_exp_obj_set_dev_t
    \/ create_error_alloc_mq_disk
    \/ create_error_init_tag_set
    \/ create_error_init_kobject
    \/ create_error_module_get
    \/ create_error_kstrdup
    \/ create_error_exp_obj_alloc

\* mutant of activate_checks: no BUG_ON(dsk->exp_obj->activated)
activate_checks_no_bug_on(path_ok, exists) ==
    IF dsk.exp_obj = "NULL" THEN <<"bug", "BUG_ON_no_exp_obj">>
    ELSE IF kern.obj_mem # "live" THEN <<"ub", "none">>
    ELSE IF exp.gd = "NULL" THEN <<"bug", "BUG_ON_no_gd">>
    ELSE IF ~path_ok THEN <<"idle", "-ENOMEM">>
    ELSE IF exists THEN <<"idle", "-EEXIST">>
    ELSE <<"a_add_disk", "none">>

\* mutant of activate_checks: what _cas_exp_obj_exists says is ignored
activate_checks_exists_ignored(path_ok, exists) ==
    IF dsk.exp_obj = "NULL" THEN <<"bug", "BUG_ON_no_exp_obj">>
    ELSE IF kern.obj_mem # "live" THEN <<"ub", "none">>
    ELSE IF exp.gd = "NULL" THEN <<"bug", "BUG_ON_no_gd">>
    ELSE IF exp.activated THEN <<"bug", "BUG_ON_activated">>
    ELSE IF ~path_ok THEN <<"idle", "-ENOMEM">>
    ELSE <<"a_add_disk", "none">>

\* cas_exp_obj_activate, lines 544-562: where the call goes and what it
\* returns there.  BUG_ON(!dsk->exp_obj), BUG_ON(!dsk->exp_obj->gd) (a read
\* of freed memory if the object is gone), BUG_ON(dsk->exp_obj->activated),
\* -ENOMEM without the path buffer, -EEXIST if _cas_exp_obj_exists(path)
activate_checks(path_ok, exists) ==
    IF dsk.exp_obj = "NULL" THEN <<"bug", "BUG_ON_no_exp_obj">>
    ELSE IF kern.obj_mem # "live" THEN <<"ub", "none">>
    ELSE IF exp.gd = "NULL" THEN <<"bug", "BUG_ON_no_gd">>
    ELSE IF exp.activated THEN <<"bug", "BUG_ON_activated">>
    ELSE IF ~path_ok THEN <<"idle", "-ENOMEM">>
    ELSE IF exists THEN <<"idle", "-EEXIST">>
    ELSE <<"a_add_disk", "none">>

\* cas_exp_obj_activate, lines 539-562.  path_ok: kmalloc(PATH_MAX) gave a
\* buffer; exists: filp_open of /dev/<dev_name> gave a file
cas_exp_obj_activate_entry ==
    /\ epc = "idle"
    /\ oplog' = <<>>
    /\ eresult' = "0"
    /\ \E path_ok \in BOOLEAN, exists \in BOOLEAN :
         LET to == activate_checks(path_ok, exists) IN
           /\ epc' = to[1]
           /\ eret' = to[2]
           /\ call' = [NewCall("activate") EXCEPT
                           !.found = (/\ ObjValid
                                      /\ exp.gd # "NULL"
                                      /\ ~exp.activated
                                      /\ path_ok
                                      /\ exists),
                           !.was_activated = (ObjValid /\ exp.activated)]
           /\ efaults' = IF to[1] = "ub" THEN efaults \cup {"exp_obj_uaf"}
                         ELSE efaults
    /\ UNCHANGED <<nonExpVars, openVars, expState, pre>>

\* dsk->exp_obj->activated = true; add_disk(dsk->exp_obj->gd)
activate_add_disk ==
    /\ epc = "a_add_disk"
    /\ exp' = [exp EXCEPT !.activated = TRUE]
    /\ kern' = [kern EXCEPT !.added = TRUE]
    /\ efaults' = IF kern.disk = "alloc" THEN efaults
                  ELSE efaults \cup {"gendisk_uaf"}
    /\ Log(<<"add_disk">>)
    /\ Goto("a_bd_claim")
    /\ UNCHANGED <<dsk, gdsk, gd, call, eresult>>

\* result = bd_claim_by_disk(dsk->bd, dsk, dsk->exp_obj->gd)
activate_bd_claim ==
    /\ epc = "a_bd_claim"
    /\ \E ok \in BOOLEAN :
         IF ok
         THEN /\ kern' = [kern EXCEPT !.holder = TRUE]
              /\ Log(<<"bd_link_disk_holder">>)
              /\ Goto("a_sysfs_link")
              /\ UNCHANGED eresult
         ELSE /\ eresult' = "E_bd_claim"
              /\ Log(<<"fail">>)
              /\ Goto("error_bd_claim")
              /\ UNCHANGED kern
    /\ UNCHANGED <<dsk, exp, gdsk, gd, call, efaults>>

\* result = sysfs_create_link(&dsk->exp_obj->kobj, ..., "blockdev"); return 0
activate_sysfs_link ==
    /\ epc = "a_sysfs_link"
    /\ \E ok \in BOOLEAN :
         IF ok
         THEN /\ kern' = [kern EXCEPT !.link = TRUE]
              /\ Log(<<"sysfs_create_link">>)
              /\ Return("0")
              /\ UNCHANGED eresult
         ELSE /\ eresult' = "E_sysfs_link"
              /\ Log(<<"fail">>)
              /\ Goto("error_sysfs_link")
              /\ UNCHANGED kern
    /\ UNCHANGED <<dsk, exp, gdsk, gd, call, efaults>>

\* error_sysfs_link: bd_release_from_disk(dsk->bd, dsk->exp_obj->gd)
activate_error_sysfs_link ==
    /\ epc = "error_sysfs_link"
    /\ kern' = [kern EXCEPT !.holder = FALSE]
    /\ Log(<<"bd_unlink_disk_holder">>)
    /\ Goto("error_bd_claim")
    /\ UNCHANGED <<dsk, exp, gdsk, gd, call, eresult, efaults>>

\* mutant of activate_error_bd_claim: the disk stays registered
activate_error_bd_claim_keeps_disk ==
    /\ epc = "error_bd_claim"
    /\ exp' = [exp EXCEPT !.activated = FALSE]
    /\ Return(eresult)
    /\ UNCHANGED <<dsk, gdsk, gd, kern, call, eresult, oplog, efaults>>

\* error_bd_claim: del_gendisk(dsk->exp_obj->gd);
\* dsk->exp_obj->activated = false; return result
activate_error_bd_claim ==
    /\ epc = "error_bd_claim"
    /\ kern' = [kern EXCEPT !.added = FALSE]
    /\ exp' = [exp EXCEPT !.activated = FALSE]
    /\ Log(<<"del_gendisk">>)
    /\ Return(eresult)
    /\ UNCHANGED <<dsk, gdsk, gd, call, eresult, efaults>>

cas_exp_obj_activate ==
    \/ cas_exp_obj_activate_entry
    \/ activate_add_disk
    \/ activate_bd_claim
    \/ activate_sysfs_link
    \/ activate_error_sysfs_link
    \/ activate_error_bd_claim

\* cas_exp_obj_destroy, lines 624-635: -ENODEV without an object
cas_exp_obj_destroy_entry ==
    /\ epc = "idle"
    /\ oplog' = <<>>
    /\ eresult' = "0"
    /\ IF dsk.exp_obj = "NULL"
       THEN /\ epc' = "idle" /\ eret' = "-ENODEV"
            /\ call' = NewCall("destroy")
            /\ UNCHANGED efaults
       ELSE IF kern.obj_mem # "live"
       THEN /\ epc' = "ub" /\ eret' = "none"
            /\ call' = NewCall("destroy")
            /\ efaults' = efaults \cup {"exp_obj_uaf"}
       ELSE /\ epc' = "d_activated" /\ eret' = "none"
            /\ call' = [NewCall("destroy") EXCEPT
                            !.was_activated = exp.activated]
            /\ UNCHANGED efaults
    /\ UNCHANGED <<nonExpVars, openVars, expState, pre>>

\* if (dsk->exp_obj->activated): sysfs_remove_link, bd_release_from_disk,
\* _cas_exp_obj_clear_dev_t, del_gendisk
destroy_activated ==
    /\ epc = "d_activated"
    /\ IF exp.activated
       THEN /\ kern' = [kern EXCEPT !.link = FALSE, !.holder = FALSE,
                                    !.added = FALSE]
            /\ gdsk' = cas_exp_obj_clear_dev_t(gdsk, dsk)
            /\ Log(<<"sysfs_remove_link", "bd_unlink_disk_holder",
                     "clear_dev_t", "del_gendisk">>)
       ELSE UNCHANGED <<kern, gdsk, oplog>>
    /\ Goto("d_release")
    /\ UNCHANGED <<dsk, exp, gd, call, eresult, efaults>>

\* what releasing a resource that is not allocated adds to the faults
ReleaseFaults(k, e) ==
    (IF e.queue # "NULL" /\ k.queue # "alloc" THEN {"queue_not_allocated"} ELSE {})
    \cup (IF k.tag_set # "alloc" THEN {"tag_set_not_allocated"} ELSE {})
    \cup (IF k.disk # "alloc" THEN {"gendisk_not_allocated"} ELSE {})

\* mutant of destroy_release: the tag set is left allocated
destroy_release_keeps_tag_set ==
    /\ epc = "d_release"
    /\ kern' = [kern EXCEPT
                   !.queue = IF exp.queue # "NULL" THEN "released" ELSE @,
                   !.disk = "released"]
    /\ efaults' = efaults \cup ReleaseFaults(kern, exp)
    /\ Log((IF exp.queue # "NULL" THEN <<"blk_cleanup_queue">> ELSE <<>>)
           \o <<"put_disk">>)
    /\ Return("0")
    /\ UNCHANGED <<dsk, exp, gdsk, gd, call, eresult>>

\* if (exp_obj->queue) blk_cleanup_queue(exp_obj->queue);
\* blk_mq_free_tag_set(&dsk->tag_set); put_disk(exp_obj->gd); return 0
destroy_release ==
    /\ epc = "d_release"
    /\ kern' = [kern EXCEPT
                   !.queue = IF exp.queue # "NULL" THEN "released" ELSE @,
                   !.tag_set = "released",
                   !.disk = "released"]
    /\ efaults' = efaults \cup ReleaseFaults(kern, exp)
    /\ Log((IF exp.queue # "NULL" THEN <<"blk_cleanup_queue">> ELSE <<>>)
           \o <<"blk_mq_free_tag_set", "put_disk">>)
    /\ Return("0")
    /\ UNCHANGED <<dsk, exp, gdsk, gd, call, eresult>>

cas_exp_obj_destroy ==
    \/ cas_exp_obj_destroy_entry
    \/ destroy_activated
    \/ destroy_release

\* cas_exp_obj_free: nothing without an object, else kobject_put (the release
\* callback frees the name and the object and puts the module) and
\* dsk->exp_obj = NULL
cas_exp_obj_free ==
    /\ epc = "idle"
    /\ call' = NewCall("free")
    /\ eresult' = "0"
    /\ IF dsk.exp_obj = "NULL"
       THEN /\ epc' = "idle" /\ eret' = "void"
            /\ oplog' = <<>>
            /\ UNCHANGED <<dsk, kern, efaults>>
       ELSE IF kern.obj_mem # "live"
       THEN /\ epc' = "ub" /\ eret' = "none"
            /\ oplog' = <<>>
            /\ efaults' = efaults \cup {"exp_obj_uaf"}
            /\ UNCHANGED <<dsk, kern>>
       ELSE /\ epc' = "idle" /\ eret' = "void"
            /\ kern' = kobject_put(kern, exp)
            /\ dsk' = [dsk EXCEPT !.exp_obj = "NULL"]
            /\ oplog' = kobject_put_ops(exp)
            /\ UNCHANGED efaults
    /\ UNCHANGED <<nonExpVars, openVars, exp, gdsk, bd_whole, gd, pre>>

\* ------------------------------------------ open, close, lock and unlock
\* _cas_exp_obj_open, lines 239-244: the block layer calls it on a registered
\* disk; mutex_lock(&dsk->openers_lock)
open_mutex_lock(p) ==
    /\ opc[p] = "idle"
    /\ kern.added
    /\ held[p] < MaxHeld
    /\ openers_lock = 0
    /\ openers_lock' = p
    /\ opc' = [opc EXCEPT ![p] = "open"]
    /\ UNCHANGED <<nonExpVars, stray, expState, callerVars, held, oret, lpc, lret,
                   reopen>>

\* mutant of open_body: the claimed flag is not looked at
open_body_claimed_ignored(p) ==
    /\ opc[p] = "open"
    /\ IF dsk.openers = UINT_MAX
       THEN /\ oret' = [oret EXCEPT ![p] = "-EBUSY"]
            /\ UNCHANGED <<dsk, held>>
       ELSE /\ dsk' = [dsk EXCEPT !.openers = @ + 1]
            /\ held' = [held EXCEPT ![p] = @ + 1]
            /\ oret' = [oret EXCEPT ![p] = "0"]
    /\ openers_lock' = 0
    /\ opc' = [opc EXCEPT ![p] = "idle"]
    /\ UNCHANGED <<nonExpVars, stray, exp, gdsk, bd_whole, gd, kern, callerVars, lpc,
                   lret, reopen>>

\* lines 246-256: -ENAVAIL if claimed, -EBUSY at UINT_MAX openers, else one
\* opener more; mutex_unlock; return result
open_body(p) ==
    /\ opc[p] = "open"
    /\ IF dsk.claimed
       THEN /\ oret' = [oret EXCEPT ![p] = "-ENAVAIL"]
            /\ reopen' = IF reopen = "none" THEN "rejected" ELSE reopen
            /\ UNCHANGED <<dsk, held>>
       ELSE IF dsk.openers = UINT_MAX
       THEN /\ oret' = [oret EXCEPT ![p] = "-EBUSY"]
            /\ UNCHANGED <<dsk, held, reopen>>
       ELSE /\ dsk' = [dsk EXCEPT !.openers = @ + 1]
            /\ held' = [held EXCEPT ![p] = @ + 1]
            /\ oret' = [oret EXCEPT ![p] = "0"]
            /\ reopen' = IF reopen = "unlocked" THEN "opened" ELSE reopen
    /\ openers_lock' = 0
    /\ opc' = [opc EXCEPT ![p] = "idle"]
    /\ UNCHANGED <<nonExpVars, stray, exp, gdsk, bd_whole, gd, kern, callerVars, lpc,
                   lret>>

\* _cas_exp_obj_close, lines 259-263: the block layer calls it once for each
\* open that succeeded; BUG_ON(dsk->openers == 0), read without the mutex
close_check(p) ==
    /\ opc[p] = "idle"
    /\ held[p] > 0
    /\ opc' = [opc EXCEPT ![p] = IF dsk.openers = 0 THEN "bug" ELSE "close_lock"]
    /\ UNCHANGED <<nonExpVars, stray, expState, callerVars, openers_lock, held, oret,
                   lpc, lret, reopen>>

\* mutex_lock(&dsk->openers_lock)
close_mutex_lock(p) ==
    /\ opc[p] = "close_lock"
    /\ openers_lock = 0
    /\ openers_lock' = p
    /\ opc' = [opc EXCEPT ![p] = "close"]
    /\ UNCHANGED <<nonExpVars, stray, expState, callerVars, held, oret, lpc, lret,
                   reopen>>

\* dsk->openers--; mutex_unlock
close_body(p) ==
    /\ opc[p] = "close"
    /\ dsk' = [dsk EXCEPT !.openers = (@ - 1) % (2 ^ OpenersBits)]
    /\ held' = [held EXCEPT ![p] = @ - 1]
    /\ openers_lock' = 0
    /\ opc' = [opc EXCEPT ![p] = "idle"]
    /\ UNCHANGED <<nonExpVars, stray, exp, gdsk, bd_whole, gd, kern, callerVars, oret,
                   lpc, lret, reopen>>

\* cas_exp_obj_lock, lines 589-601: BUG_ON(!dsk->exp_obj); mutex_lock
lock_mutex_lock ==
    /\ lpc = "idle"
    /\ IF dsk.exp_obj = "NULL"
       THEN /\ lpc' = "bug"
            /\ UNCHANGED openers_lock
       ELSE /\ openers_lock = 0
            /\ openers_lock' = LockerId
            /\ lpc' = "lock"
    /\ UNCHANGED <<nonExpVars, stray, expState, callerVars, opc, held, oret, lret,
                   reopen>>

\* mutant of lock_body: the claim is taken whatever the opener count
lock_body_openers_ignored ==
    /\ lpc = "lock"
    /\ dsk' = [dsk EXCEPT !.claimed = TRUE]
    /\ lret' = "0"
    /\ openers_lock' = 0
    /\ lpc' = "idle"
    /\ UNCHANGED <<nonExpVars, stray, exp, gdsk, bd_whole, gd, kern, callerVars, opc,
                   held, oret, reopen>>

\* mutant of lock_body: one opener does not stop the lock
lock_body_one_opener_allowed ==
    /\ lpc = "lock"
    /\ IF dsk.openers <= 1
       THEN /\ dsk' = [dsk EXCEPT !.claimed = TRUE]
            /\ lret' = "0"
       ELSE /\ lret' = "-EBUSY"
            /\ UNCHANGED dsk
    /\ openers_lock' = 0
    /\ lpc' = "idle"
    /\ UNCHANGED <<nonExpVars, stray, exp, gdsk, bd_whole, gd, kern, callerVars, opc,
                   held, oret, reopen>>

\* lines 603-609: claimed = true and 0 if there is no opener, else -EBUSY;
\* mutex_unlock; return result
lock_body ==
    /\ lpc = "lock"
    /\ IF dsk.openers = 0
       THEN /\ dsk' = [dsk EXCEPT !.claimed = TRUE]
            /\ lret' = "0"
       ELSE /\ lret' = "-EBUSY"
            /\ UNCHANGED dsk
    /\ openers_lock' = 0
    /\ lpc' = "idle"
    /\ UNCHANGED <<nonExpVars, stray, exp, gdsk, bd_whole, gd, kern, callerVars, opc,
                   held, oret, reopen>>

\* cas_exp_obj_unlock, lines 612-617: mutex_lock
unlock_mutex_lock ==
    /\ lpc = "idle"
    /\ openers_lock = 0
    /\ openers_lock' = LockerId
    /\ lpc' = "unlock"
    /\ UNCHANGED <<nonExpVars, stray, expState, callerVars, opc, held, oret, lret,
                   reopen>>

\* dsk->claimed = false; mutex_unlock; return 0
unlock_body ==
    /\ lpc = "unlock"
    /\ dsk' = [dsk EXCEPT !.claimed = FALSE]
    /\ reopen' = IF reopen = "rejected" THEN "unlocked" ELSE reopen
    /\ openers_lock' = 0
    /\ lpc' = "idle"
    /\ UNCHANGED <<nonExpVars, stray, exp, gdsk, bd_whole, gd, kern, callerVars, opc,
                   held, oret, lret>>

\* _cas_exp_obj_close called with no open behind the call, lines 259-263:
\* BUG_ON(dsk->openers == 0), read without the mutex
stray_close_check ==
    /\ stray.pc = "idle"
    /\ stray.calls < MaxStrayCloses
    /\ stray' = [pc |-> IF dsk.openers = 0 THEN "bug" ELSE "close_lock",
                 calls |-> stray.calls + 1]
    /\ UNCHANGED <<nonExpVars, expState, callerVars, openers_lock, opc, held,
                   oret, lpc, lret, reopen>>

\* mutex_lock(&dsk->openers_lock)
stray_close_mutex_lock ==
    /\ stray.pc = "close_lock"
    /\ openers_lock = 0
    /\ openers_lock' = StrayId
    /\ stray' = [stray EXCEPT !.pc = "close"]
    /\ UNCHANGED <<nonExpVars, expState, callerVars, opc, held, oret, lpc,
                   lret, reopen>>

\* dsk->openers--; mutex_unlock
stray_close_body ==
    /\ stray.pc = "close"
    /\ dsk' = [dsk EXCEPT !.openers = (@ - 1) % (2 ^ OpenersBits)]
    /\ openers_lock' = 0
    /\ stray' = [stray EXCEPT !.pc = "idle"]
    /\ UNCHANGED <<nonExpVars, exp, gdsk, bd_whole, gd, kern, callerVars, opc,
                   held, oret, lpc, lret, reopen>>

\* ------------------------------------------- queue selection on its own
\* A caller hands cache_get_fastest_porter_queue an array of pending counts
\* that does not change during the call.
PorterInit ==
    /\ ThreadIdle
    /\ ExpIdle
    /\ porter_io \in PorterInputs
    /\ porter_ret = 0

porter_select ==
    /\ porter_ret = 0
    /\ porter_ret' = cache_get_fastest_porter_queue(porter_io)
    /\ UNCHANGED <<threadVars, expVars, porter_io>>

PorterNext == porter_select

PorterSpec == PorterInit /\ [][PorterNext]_vars

\* ------------------------------------------------- exported object alone
\* One cas_disk on a backing device, zeroed, no exported object yet: the
\* management calls in any order.  Nothing opens the exported device here.
ExpInit ==
    /\ ThreadIdle
    /\ PorterIdle
    /\ dsk = DskZero
    /\ exp = ExpZero
    /\ gdsk \in BackingDisks
    /\ bd_whole \in BOOLEAN
    /\ gd = GdNone
    /\ kern = KernNone
    /\ pre = [gdsk |-> gdsk, kern |-> KernNone]
    /\ CallerIdle
    /\ OpenIdle

ExpNext ==
    \/ cas_exp_obj_create
    \/ cas_exp_obj_activate
    \/ cas_exp_obj_destroy
    \/ cas_exp_obj_free

ExpSpec == ExpInit /\ [][ExpNext]_vars

\* ------------------------------------------------- the published device
\* The exported device of a partition after cas_exp_obj_create and
\* cas_exp_obj_activate have both returned 0 (a state of ExpSpec): tasks open
\* and close it while another task calls lock and unlock.  None of the
\* management calls touches openers, claimed or openers_lock.
OpenInit ==
    /\ ThreadIdle
    /\ PorterIdle
    /\ dsk = [DskZero EXCEPT !.exp_obj = "obj", !.private = "priv"]
    /\ exp = [dev_name |-> 1, owner |-> "owner", gd |-> "gd",
              queue |-> "queue", activated |-> TRUE]
    /\ gdsk = [flags |-> {}, minors |-> 16]
    /\ bd_whole = FALSE
    /\ gd = [minors |-> 1, flags |-> {}, disk_name |-> 1]
    /\ kern = [obj_mem |-> "live", name_mem |-> "live", module_refs |-> 1,
               kobj |-> "added", tag_set |-> "alloc", queue |-> "alloc",
               disk |-> "alloc", minors |-> 1, added |-> TRUE,
               holder |-> TRUE, link |-> TRUE]
    /\ pre = [gdsk |-> gdsk, kern |-> KernNone]
    /\ call = [CallNone EXCEPT
                  !.op = "activate", !.creates = 1,
                  !.prev = [op |-> "create", ret |-> "0", name_len |-> 1]]
    /\ epc = "idle"
    /\ eret = "0"
    /\ eresult = "0"
    /\ oplog = <<"add_disk", "bd_link_disk_holder", "sysfs_create_link">>
    /\ efaults = {}
    /\ OpenIdle

Opener ==
    \E p \in Openers :
        \/ open_mutex_lock(p)
        \/ open_body(p)
        \/ close_check(p)
        \/ close_mutex_lock(p)
        \/ close_body(p)

Locker ==
    \/ lock_mutex_lock
    \/ lock_body
    \/ unlock_mutex_lock
    \/ unlock_body

OpenNext == Opener \/ Locker

OpenSpec == OpenInit /\ [][OpenNext]_vars

\* --------------------------------------- closes that no open stands behind
\* The published device again, with one more task that calls
\* _cas_exp_obj_close without having opened the device: the case
\* BUG_ON(dsk->openers == 0) is there for.
StrayCloser ==
    \/ stray_close_check
    \/ stray_close_mutex_lock
    \/ stray_close_body

StrayNext == OpenNext \/ StrayCloser

StraySpec == OpenInit /\ [][StrayNext]_vars

\* ------------------------------------------------------------- properties
\* the first stop call, the one that found the handle, has returned
FirstStopReturned == stopCalls >= 2 \/ (stopCalls = 1 /\ spc = "idle")

QueueExiting == {"q_warn", "q_exit", "exited"}
CleanerWaitStates == {"c_wait", "c_prep", "c_recheck", "c_sched"}
CleanerTimedWaitStates == {"ct_wait", "ct_prep", "ct_recheck", "ct_sched"}
InCleanerWait == wpc \in CleanerWaitStates \cup CleanerTimedWaitStates
CleanerExiting == {"c_print", "c_exit", "exited"}

\* C1: once cas_stop_queue_thread has returned, the queue's pending count is
\* 0, whatever requests were pushed before stop was called (none after it).
C1_StopReturnsDrained ==
    (kind = "queue" /\ FirstStopReturned /\ ~enqAfterStop) => pending = 0

\* C1 witness: stop has returned after requests were pushed and drained
C1_Witness ==
    /\ kind = "queue"
    /\ FirstStopReturned
    /\ ~enqAfterStop
    /\ enqueues >= 2
    /\ pending = 0

\* C2: the queue worker never signals exit (complete(&info->compl) at the end
\* of queue_thread_run) while its queue has pending requests, also when a
\* request is pushed after its last loop test.
C2_NoExitWhilePending ==
    [][(wpc = "q_exit" /\ wpc' = "exited") => pending = 0]_vars

\* C3: under fair scheduling every cas_stop_queue_thread call that was begun
\* returns, whatever kicks and enqueues are interleaved with it.
C3_StopReturns ==
    (kind = "queue" /\ stopCalls >= 1) ~> (kind = "queue" /\ FirstStopReturned)

\* C3 witness: stop was set and the wake-up issued after the worker found its
\* wait condition false and before it went to sleep in schedule()
C3_Witness ==
    /\ kind = "queue"
    /\ wpc = "q_sched"
    /\ stop = 1
    /\ ~wq_armed
    /\ spc = "wait"

\* C4 as stated: the worker has not left its loop while a kick that arrived
\* inside ocf_queue_run is still to be followed by another ocf_queue_run.
C4_RunAfterEveryMidRunKick ==
    (kind = "queue" /\ wpc \in QueueExiting) => midKick # "kicked"

\* C4 amended: with such a kick not yet followed by another ocf_queue_run, the
\* worker leaves its loop only through a loop test that finds stop set and the
\* queue empty; in every other case it goes round the loop again.
C4_RunAfterMidRunKickUnlessStopped ==
    [][(kind = "queue" /\ midKick = "kicked"
            /\ wpc \notin QueueExiting /\ wpc' \in QueueExiting)
        => (wpc = "q_loop_pending" /\ stop = 1 /\ pending = 0)]_vars

\* C4 witness: a kick arrived inside ocf_queue_run, ocf_queue_run was entered
\* again after it, and the worker has exited
C4_Witness ==
    /\ kind = "queue"
    /\ midKick = "rerun"
    /\ wpc = "exited"

\* C5: cas_create_*_thread has returned 0 only if the worker has signalled
\* that it runs, and a worker that reads the private slot finds the handle.
C5_CreateReturnsAfterStart ==
    /\ result = "ok" =>
         wpc \notin {"none", "created", "q_entry", "c_entry", "q_started", "c_started"}
    /\ wpc \in {"q_entry", "c_entry"} => priv = "info"
    /\ wpc # "BUG"

\* C5 witness: create has returned 0 and the worker is past its start signal
C5_Witness ==
    /\ result = "ok"
    /\ cpc = "ret"
    /\ wpc \in {"q_wait", "c_setup"}
    /\ priv = "info"

\* C6: the handle is freed only after the worker signalled exit, and the
\* worker never touches a freed handle (queue worker and cleaner alike).
C6_FreeAfterExit ==
    /\ info_alloc = "freed" => wpc = "exited"
    /\ "worker_uaf" \notin faults

\* C6 witness: the handle is freed and the worker has exited
C6_Witness ==
    /\ info_alloc = "freed"
    /\ wpc = "exited"
    /\ stop = 1

\* C7: at most one cleaning pass is in flight, the cleaner is then waiting for
\* its completion, and every pass went to a queue with the least pending count
\* among those read when it started.
C7_OnePassInFlight ==
    /\ Len(inflight) <= 1
    /\ inflight # <<>> => wpc = "c_wait_pass"
    /\ passTargetIsMin

\* C7 witness: a pass is in flight after an earlier one has completed
C7_Witness ==
    /\ Len(inflight) = 1
    /\ ms # "unset"
    /\ wpc = "c_wait_pass"

\* C8: a wait entered with kicked set returns at once; the cleaner is never
\* parked in schedule() with kicked set unless the kick's wake_up is about to
\* come; and after a kick has set the flag a pass starts or stop is requested.
C8_KickStartsPass ==
    /\ [][(wpc \in {"c_wait", "ct_wait"} /\ kicked = 1 /\ wpc' # wpc)
           => wpc' = "c_loop_stop"]_vars
    /\ [](/\ kind = "cleaner"
          /\ wpc \in {"c_sched", "ct_sched"}
          /\ wq_armed
          /\ kicked = 1
          => \E k \in Kickers : kpc[k] = "wake")
    /\ (kind = "cleaner" /\ kickWaiting) ~> (~kickWaiting \/ stop = 1)

\* C8 witness: the kick has set the flag while the cleaner sleeps in the wait
\* without timeout
C8_Witness ==
    /\ kind = "cleaner"
    /\ wpc = "c_sched"
    /\ ms = OCF_CLEANER_DISABLE
    /\ kickWaiting
    /\ kicked = 1
    /\ stop = 0

\* C9: after a pass reported OCF_CLEANER_DISABLE the cleaner leaves its wait
\* only with kicked or stop set; after a finite interval it leaves the wait
\* with kicked or stop set or with the timeout run out.
C9_WaitEnds ==
    /\ [][(InCleanerWait /\ ~InCleanerWait' /\ ms = OCF_CLEANER_DISABLE)
           => (kicked = 1 \/ stop = 1)]_vars
    /\ [][(InCleanerWait /\ ~InCleanerWait' /\ ms # OCF_CLEANER_DISABLE)
           => (kicked = 1 \/ stop = 1 \/ expired \/ ms = "0ms")]_vars

\* C9 witness: the cleaner sleeps after a pass that reported the disabled
\* interval, neither kicked nor stopped
C9_Witness ==
    /\ kind = "cleaner"
    /\ wpc = "c_sched"
    /\ wq_armed
    /\ ms = OCF_CLEANER_DISABLE
    /\ kicked = 0
    /\ stop = 0

\* C10: a cleaner iteration that finds stop set goes to the exit path, on
\* which no pass is started, and cas_stop_cleaner_thread returns (every pass
\* started completes, by fairness).
C10_StopEndsCleaner ==
    /\ [][(wpc = "c_loop_stop" /\ stop = 1) => wpc' \in {"c_loop_stop", "c_print"}]_vars
    /\ [][(kind = "cleaner" /\ wpc \in CleanerExiting)
           => (wpc' \in CleanerExiting /\ Len(inflight') <= Len(inflight))]_vars
    /\ (kind = "cleaner" /\ stopCalls >= 1) ~> (kind = "cleaner" /\ FirstStopReturned)

\* C10 witness: stop has returned for a cleaner that ran a pass
C10_Witness ==
    /\ kind = "cleaner"
    /\ FirstStopReturned
    /\ ms # "unset"
    /\ wpc = "exited"
    /\ inflight = <<>>

\* C11: for every array of per-CPU pending counts that stays fixed during the
\* call, cache_get_fastest_porter_queue returns a queue whose count is the
\* minimum of the array, and among the queues with that count the one with
\* the lowest CPU index: [5,3,3,8] gives index 1 and [0,0,0] index 0 (C
\* indices; the model counts from 1).
C11_FirstMinimum ==
    porter_ret # 0 =>
        /\ porter_ret \in 1..Len(porter_io)
        /\ \A j \in 1..Len(porter_io) : porter_io[porter_ret] <= porter_io[j]
        /\ \A j \in 1..(porter_ret - 1) : porter_io[j] > porter_io[porter_ret]
        /\ (porter_io = <<5, 3, 3, 8>> => porter_ret = 2)
        /\ (porter_io = <<0, 0, 0>> => porter_ret = 1)

\* the call returned for [5,3,3,8]: two queues share the minimum
C11_Witness ==
    /\ porter_io = <<5, 3, 3, 8>>
    /\ porter_ret = 2

\* C12: in every interleaving of open, close, lock and unlock, the lock call
\* decides while it holds openers_lock: if the opener count is above zero
\* then, it returns -EBUSY and leaves claimed as it was, and it sets claimed
\* (and returns 0) only when the count is zero then; no other step ever
\* sets claimed.
C12_LockBusyWhileOpen ==
    [][/\ (lpc = "lock" /\ lpc' = "idle") =>
            /\ openers_lock = LockerId
            /\ dsk.openers > 0 =>
                   (lret' = "-EBUSY" /\ dsk'.claimed = dsk.claimed)
            /\ dsk.openers = 0 => (lret' = "0" /\ dsk'.claimed)
       /\ (~dsk.claimed /\ dsk'.claimed) =>
            (lpc = "lock" /\ openers_lock = LockerId /\ dsk.openers = 0)
      ]_vars

\* a lock call came back with -EBUSY while one task held the device open and
\* another was inside a call
C12_Witness ==
    /\ lpc = "idle"
    /\ lret = "-EBUSY"
    /\ ~dsk.claimed
    /\ dsk.openers > 0
    /\ \E p \in Openers : opc[p] # "idle"

\* C13: an open that runs while claimed is set is refused (-ENAVAIL) and
\* leaves the opener count as it was; an open that runs while claimed is
\* clear, as after unlock, succeeds and counts one opener more (short of
\* UINT_MAX openers).
C13_ClaimedRejectsOpens ==
    [][\A p \in Openers :
          (opc[p] = "open" /\ opc'[p] = "idle") =>
             IF dsk.claimed
             THEN /\ oret'[p] = "-ENAVAIL"
                  /\ dsk'.openers = dsk.openers
                  /\ held'[p] = held[p]
             ELSE dsk.openers < UINT_MAX =>
                     /\ oret'[p] = "0"
                     /\ dsk'.openers = dsk.openers + 1
                     /\ held'[p] = held[p] + 1
      ]_vars

\* an open was refused while claimed, unlock cleared the flag, and an open
\* after that succeeded
C13_Witness ==
    /\ reopen = "opened"
    /\ ~dsk.claimed
    /\ dsk.openers > 0

\* the first call on the cas_disk, a create, has returned an error from one
\* of its steps
CreateFailed ==
    /\ call.op = "create"
    /\ call.prev.op = "none"
    /\ epc = "idle"
    /\ eret \notin {"0", "none"}
    /\ oplog # <<>>

\* C14: when a step of cas_exp_obj_create fails, everything the steps before
\* it did is undone when the error is returned: the backing disk has the
\* flags and minors it had, the module reference is put, and the object, the
\* name, the kobject, the tag set, the queue and the gendisk are released.
C14_FailedCreateUndoesAll ==
    CreateFailed =>
        /\ gdsk = pre.gdsk
        /\ dsk.private = "NULL"
        /\ kern.module_refs = pre.kern.module_refs
        /\ kern.obj_mem # "live"
        /\ kern.name_mem # "live"
        /\ kern.kobj # "added"
        /\ kern.tag_set # "alloc"
        /\ kern.queue # "alloc"
        /\ kern.disk # "alloc"

\* C15: create and then destroy, with no activate in between, leaves the
\* backing disk with the flags and minors it had before the create, and the
\* tag set, the queue and the gendisk released.
C15_CreateDestroyRestores ==
    (/\ call.op = "destroy"
     /\ call.prev.op = "create"
     /\ call.prev.ret = "0"
     /\ call.creates = 1
     /\ epc = "idle") =>
        /\ eret = "0"
        /\ gdsk = pre.gdsk
        /\ kern.tag_set # "alloc"
        /\ kern.queue # "alloc"
        /\ kern.disk # "alloc"

C17_FailedActivateUnregisters ==
    (call.op = "activate" /\ epc = "idle"
        /\ eret \in {"E_bd_claim", "E_sysfs_link"}) =>
        /\ ~kern.added
        /\ ~kern.holder
        /\ ~kern.link
        /\ ~exp.activated
        /\ eret = "E_bd_claim" =>
               oplog = <<"add_disk", "fail", "del_gendisk">>
        /\ eret = "E_sysfs_link" =>
               oplog = <<"add_disk", "bd_link_disk_holder", "fail",
                         "bd_unlink_disk_holder", "del_gendisk">>

\* the symlink failed after the disk was added and the holder link made
C17_Witness ==
    /\ call.op = "activate"
    /\ epc = "idle"
    /\ eret = "E_sysfs_link"
    /\ Len(oplog) = 5

\* C18: when the existence check of activate finds a file at
\* /dev/<device name>, the call returns -EEXIST, registers nothing and
\* leaves the activation flag false.
C18_ExistingPathRejected ==
    (call.op = "activate" /\ call.found) =>
        /\ epc = "idle"
        /\ eret = "-EEXIST"
        /\ oplog = <<>>
        /\ ~exp.activated
        /\ ~kern.added
        /\ ~kern.holder
        /\ ~kern.link

\* activate found the path taken on a created, never activated device
C18_Witness ==
    /\ call.op = "activate"
    /\ call.found
    /\ eret = "-EEXIST"
    /\ call.prev.op = "create"
    /\ call.prev.ret = "0"

\* C19: create goes on to its first allocation with a name of
\* DISK_NAME_LEN - 1 characters (and can succeed, the whole name kept), and
\* with a name of DISK_NAME_LEN characters or more it returns -EINVAL having
\* allocated nothing, taken no module reference and left the disk alone.
C19_NameLengthBoundary ==
    (call.op = "create" /\ epc # "bug") =>
        /\ call.name_len >= DISK_NAME_LEN =>
               /\ epc = "idle"
               /\ eret = "-EINVAL"
               /\ oplog = <<>>
               /\ kern = pre.kern
               /\ gdsk = pre.gdsk
               /\ dsk.exp_obj = "NULL"
        /\ (call.name_len = DISK_NAME_LEN - 1 /\ epc = "idle") =>
               /\ oplog # <<>>
               /\ eret = "0" => gd.disk_name = DISK_NAME_LEN - 1

\* a name of DISK_NAME_LEN characters was refused, then one of
\* DISK_NAME_LEN - 1 characters made a device
C19_Witness ==
    /\ call.op = "create"
    /\ call.prev.op = "create"
    /\ call.prev.name_len = DISK_NAME_LEN
    /\ call.prev.ret = "-EINVAL"
    /\ call.name_len = DISK_NAME_LEN - 1
    /\ epc = "idle"
    /\ eret = "0"

\* C20: destroy of an activated device removes the symlink, removes the
\* holder link, restores the saved minors and flags of the backing disk and
\* unregisters the disk, in that order; activated or not, it then releases
\* the request queue, the tag set and the gendisk, and returns 0.
C20_DestroyOrder ==
    (call.op = "destroy" /\ epc = "idle" /\ eret # "-ENODEV") =>
        /\ eret = "0"
        /\ oplog =
             (IF call.was_activated
              THEN <<"sysfs_remove_link", "bd_unlink_disk_holder",
                     "clear_dev_t", "del_gendisk">>
              ELSE <<>>)
             \o <<"blk_cleanup_queue", "blk_mq_free_tag_set", "put_disk">>
        /\ ~kern.link /\ ~kern.holder /\ ~kern.added
        /\ kern.queue = "released"
        /\ kern.tag_set = "released"
        /\ kern.disk = "released"
        /\ (call.was_activated /\ bd_whole) =>
               /\ gdsk.minors = dsk.gd_minors
               /\ dsk.gd_flags \subseteq gdsk.flags

\* an activated device on a whole disk was destroyed
C20_Witness ==
    /\ call.op = "destroy"
    /\ call.was_activated
    /\ call.prev.op = "activate"
    /\ call.prev.ret = "0"
    /\ epc = "idle"
    /\ eret = "0"
    /\ bd_whole
    /\ efaults = {}

\* the place of the first op in the log of the call, 0 when it is not there
OpPos(op) ==
    IF \E i \in 1..Len(oplog) : oplog[i] = op
    THEN CHOOSE i \in 1..Len(oplog) :
             oplog[i] = op /\ \A j \in 1..(i - 1) : oplog[j] # op
    ELSE 0

\* a create call that took the module reference has returned an error
CreateFailedWithModule ==
    /\ call.op = "create"
    /\ epc = "idle"
    /\ eret \notin {"0", "none"}
    /\ OpPos("try_module_get") > 0

\* C21: on every failing path of cas_exp_obj_create that took the module
\* reference, module_put(owner) comes before the object goes back to its
\* cache (kmem_cache_free).
C21_ModulePutBeforeFree ==
    CreateFailedWithModule =>
        /\ OpPos("module_put") > 0
        /\ OpPos("kmem_cache_free") > 0
        /\ OpPos("module_put") < OpPos("kmem_cache_free")

\* a stop call after the first one has returned is under way or has returned
LaterStop == stopCalls >= 2

\* C22 as stated: a stop call made after the first one has returned never
\* returns normally.
C22_SecondStopAborts ==
    LaterStop => spc # "idle"

\* C22, amended: a stop call made after the first one has returned reads an
\* empty private slot, skips the if (info && info->thread) block, passes
\* NULL to kfree and returns: it waits for nothing, it can always take its
\* next step, and it touches no freed handle and frees nothing twice.
C22_SecondStopReturnsNormally ==
    LaterStop =>
        /\ s_info = "NULL"
        /\ priv = "NULL"
        /\ spc \in {"clear_priv", "test", "free", "idle"}
        /\ spc # "idle" => ENABLED Stopper
        /\ faults \cap {"stop_uaf", "double_free"} = {}

\* the second stop call has returned, the first having stopped and freed a
\* started worker
C22_Witness ==
    /\ stopCalls = 2
    /\ spc = "idle"
    /\ info_alloc = "freed"
    /\ wpc = "exited"

\* how often op is in the log of the call
OpCount(op) == Cardinality({i \in 1..Len(oplog) : oplog[i] = op})

\* C23: the exported object holds one reference on its owner module from
\* try_module_get until it is released, and none at any other time; a
\* failed create has put every reference it took, a successful one has kept
\* its one reference, and cas_exp_obj_free puts it exactly once.  (Stated
\* for behaviours in which no freed object has been used.)
C23_ModuleRefBalanced ==
    "exp_obj_uaf" \notin efaults =>
        /\ kern.module_refs \in {0, 1}
        /\ kern.module_refs = 1 <=>
               (kern.obj_mem = "live" /\ exp.owner = "owner")
        /\ (call.op = "create" /\ epc = "idle" /\ eret = "0") =>
               /\ kern.module_refs = 1
               /\ OpCount("try_module_get") = 1
               /\ OpCount("module_put") = 0
        /\ (call.op = "create" /\ epc = "idle" /\ eret \notin {"0", "none"}) =>
               /\ kern.module_refs = 0
               /\ OpCount("module_put") = OpCount("try_module_get")
        /\ (call.op \in {"activate", "destroy"} /\ epc # "bug"
                /\ eret # "-ENODEV") =>
               /\ kern.module_refs = 1
               /\ OpCount("module_put") = 0
        /\ (call.op = "free" /\ epc = "idle") =>
               /\ kern.module_refs = 0
               /\ oplog # <<>> => OpCount("module_put") = 1

\* a device was created, activated, destroyed and freed: the reference is
\* back
C23_Witness ==
    /\ call.op = "free"
    /\ call.prev.op = "destroy"
    /\ call.prev.ret = "0"
    /\ epc = "idle"
    /\ OpCount("module_put") = 1
    /\ kern.module_refs = 0
    /\ efaults = {}

\* C24: on a whole disk a successful create leaves the backing gendisk with
\* one minor and none of the _cas_flags, the values it had saved in
\* dsk->gd_minors and dsk->gd_flags; after create, activate and destroy the
\* backing gendisk has the minors and the flags it had before the create.
C24_WholeDiskRoundTrip ==
    (bd_whole /\ call.creates = 1 /\ epc = "idle" /\ efaults = {}) =>
        /\ (call.op = "create" /\ eret = "0") =>
               /\ gdsk.minors = 1
               /\ gdsk.flags = pre.gdsk.flags \ cas_flags
               /\ dsk.gd_minors = pre.gdsk.minors
               /\ dsk.gd_flags = pre.gdsk.flags \cap cas_flags
        /\ (call.op = "destroy" /\ call.prev.op = "activate"
                /\ call.prev.ret = "0") =>
               /\ eret = "0"
               /\ gdsk = pre.gdsk

\* a whole disk with 16 minors, GENHD_FL_NO_PART_SCAN and GENHD_FL_UP went
\* through create, activate and destroy
C24_Witness ==
    /\ bd_whole
    /\ call.creates = 1
    /\ call.op = "destroy"
    /\ call.prev.op = "activate"
    /\ call.prev.ret = "0"
    /\ epc = "idle"
    /\ efaults = {}
    /\ pre.gdsk = [flags |-> {"GENHD_FL_NO_PART_SCAN", "GENHD_FL_UP"},
                   minors |-> 16]
    /\ dsk.gd_flags = {"GENHD_FL_NO_PART_SCAN"}

\* C25: with a partition as the backing device no step of any call changes
\* the flags or the minors of the backing gendisk, no call deletes or hides
\* partitions, and a create that returns 0 has given the exported gendisk
\* one minor.
C25_PartitionLeftAlone ==
    [][~bd_whole =>
          /\ gdsk' = gdsk
          /\ \A i \in 1..Len(oplog') :
                 oplog'[i] \notin {"del_partitions", "hide_parts",
                                   "reread_partitions"}
          /\ (call'.op = "create" /\ epc' = "idle" /\ eret' = "0") =>
                 (gd'.minors = 1 /\ call'.minors = 1)
      ]_vars

\* a device on a partition of a disk with 16 minors was created, activated
\* and destroyed
C25_Witness ==
    /\ ~bd_whole
    /\ gdsk.minors = 16
    /\ gd.minors = 1
    /\ call.op = "destroy"
    /\ call.was_activated
    /\ epc = "idle"
    /\ eret = "0"

\* C26: a kick of the queue worker that begins before the worker has
\* signalled its exit reads a handle, not NULL, from the queue's private
\* slot.
C26_QueueKickFindsHandle ==
    [][\A k \in Kickers :
          (/\ kind = "queue"
           /\ wpc # "exited"
           /\ kpc[k] = "idle"
           /\ kpc'[k] # "idle") => k_info'[k] # "NULL"
      ]_vars

\* C28: the private slot of the cleaner is NULL or points to a handle that
\* is still allocated, and no kick of the cleaner touches a freed handle.
C28_CleanerSlotNeverStale ==
    kind = "cleaner" =>
        /\ priv # "NULL" => info_alloc = "live"
        /\ "kick_uaf" \notin faults

\* C27: when cas_exp_obj_create has returned an error dsk->exp_obj is NULL,
\* and between calls dsk->exp_obj never points to an object that was freed.
C27_FailedCreateEmptiesSlot ==
    epc = "idle" =>
        /\ (call.op = "create" /\ eret \notin {"0", "none"}) =>
               dsk.exp_obj = "NULL"
        /\ dsk.exp_obj # "NULL" => kern.obj_mem = "live"

\* C29: with close called only for an open that succeeded, claimed is set
\* only while the opener count is 0, in every state of every interleaving
\* of open, close, lock and unlock.
C29_ClaimedMeansNoOpeners ==
    dsk.claimed => (dsk.openers = 0 /\ \A p \in Openers : held[p] = 0)

\* the device is claimed after one task opened and closed it, and another
\* task's open was refused
C29_Witness ==
    /\ dsk.claimed
    /\ \E p, q \in Openers :
          /\ oret[p] = "0"
          /\ held[p] = 0
          /\ oret[q] = "-ENAVAIL"
          /\ opc[q] = "idle"

\* C30: once info->stop is set the cleaner starts at most one more cleaning
\* pass (the one whose loop test read stop before it was set) and then
\* leaves the loop, whatever the kicks and pass completions do.
C30_OnePassAfterStop ==
    kind = "cleaner" => passesAfterStop <= 1

\* stop was set between the loop test and ocf_cleaner_run; the pass ran,
\* a kick came in, and the cleaner has exited after that one pass
C30_Witness ==
    /\ kind = "cleaner"
    /\ passesAfterStop = 1
    /\ wpc = "exited"
    /\ kicks > 0
    /\ inflight = <<>>

\* C31: the opener count never wraps: every step that changes it adds one
\* to a count below UINT_MAX or takes one from a count above 0; an open at
\* UINT_MAX returns -EBUSY and leaves the count; a close that finds the
\* count 0 stops in its BUG_ON.
C31_OpenersNeverWrap ==
    [][/\ dsk'.openers # dsk.openers =>
            \/ (dsk.openers < UINT_MAX /\ dsk'.openers = dsk.openers + 1)
            \/ (dsk.openers > 0 /\ dsk'.openers = dsk.openers - 1)
       /\ \A p \in Openers :
            (opc[p] = "open" /\ opc'[p] = "idle" /\ ~dsk.claimed
                /\ dsk.openers = UINT_MAX) =>
                (oret'[p] = "-EBUSY" /\ dsk'.openers = dsk.openers)
       /\ (stray.pc = "idle" /\ stray'.pc # "idle" /\ dsk.openers = 0) =>
            stray'.pc = "bug"
      ]_vars
====
